---- MODULE Spec2Model ----
(***************************************************************************)
(* Traffic-Buddy backend: the chat webhook's conversation state machine,   *)
(* the session manager, division resolution with its cache, the report    *)
(* ingestion paths (chat AWAITING_LOCATION flow and the web /api/report    *)
(* and /api/suggestion endpoints), the validation of capture links         *)
(* (/api/check-link-validity and /r/:linkId) and the join-team submission. *)
(* The variable call holds one call of findDivisionForLocation or of       *)
(* isPointInPolygon made on its own, with its arguments and its result.    *)
(*                                                                         *)
(* Conventions.  Message bodies and user names are sequences of one-letter *)
(* strings, so that toLowerCase is computed letter by letter.  A timestamp *)
(* is kept as its age, now minus the timestamp: "t = now" sets the age to  *)
(* 0 and the passing of time raises it; a session's ages count hours       *)
(* and a link's ages count seconds, each up to the first value past the    *)
(* limit it is compared with.  Coordinates are integers in units of 1e-7    *)
(* degree, so that toFixed(6) rounds away the last digit.  A JavaScript    *)
(* null is the value NULL.  description, photo_url and the texts of the    *)
(* outbound messages carry no control flow; outbound messages are named by *)
(* their template key.                                                     *)
(***************************************************************************)
EXTENDS Integers, Sequences, FiniteSets, TLC

VARIABLES sessions, queries, links, locationCache, handlers, web, applications, call

vars == <<sessions, queries, links, locationCache, handlers, web, applications, call>>

(* ------------------------------ bounds -------------------------------- *)

\* the Query collection takes at most MaxQueries documents and the
\* ReportLink collection at most MaxLinks: a save beyond that fails
MaxQueries == 1

MaxLinks == 1

(* --------------------------- program constants ------------------------ *)

\* sessionManager.js: conversationTimeout = 1 * 60 * 60 * 1000 ms, in hours
conversationTimeout == 1

\* a capture link is valid for 5 minutes
linkLifetime == 5

NULL == <<"null">>

\* A user id is a sequence of tokens: the scheme "whatsapp:", "+", " ", and
\* the digits.  The webhook's senders, as Twilio names them:
Users == { <<"whatsapp:", "+", "911">> }

Handlers == {"h1", "h2"}

States == {"LANGUAGE_SELECT", "NAME_COLLECTION", "MENU", "AWAITING_REPORT",
           "AWAITING_LOCATION", "AWAITING_SUGGESTION_TEXT", "AWAITING_JOIN",
           "JOIN_TEAM_LINK_SENT"}

(* ------------------------------ messages ------------------------------ *)

\* String.prototype.toLowerCase on the letters the inputs use
LowerOf(c) ==
  CASE c = "R" -> "r" [] c = "E" -> "e" [] c = "S" -> "s" [] c = "T" -> "t"
    [] c = "M" -> "m" [] c = "N" -> "n" [] c = "U" -> "u" [] c = "A" -> "a"
    [] OTHER -> c

toLowerCase(s) == [i \in 1..Len(s) |-> LowerOf(s[i])]

\* the inbound message bodies tried; <<>> is the empty body
Bodies == { <<>>,
            <<"r","e","s","e","t">>, <<"R","e","S","E","T">>,
            <<"M","e","n","u">>,
            <<"1">>, <<"2">>, <<"8">> }

\* JavaScript truthiness of a nullable string
Truthy(s) == s # NULL /\ s # <<>>

(* ----------------------------- coordinates ---------------------------- *)

\* a request field holding a coordinate: absent, not a number, or a number
Absent == <<"absent">>
NotANumber == <<"text">>
Num(v) == <<"num", v>>
IsNum(c) == Len(c) = 2 /\ c[1] = "num"

(* ------------------------------ divisions ----------------------------- *)

\* The Division collection, in storage order; it is read-only to the server.
\* boundaries.coordinates[0] is the outer ring of [lng, lat] vertices.  An
\* officer's phone or alternate_phone may be missing (NoPhone, falsy).
NoPhone == ""

Divisions == <<
  [ name |-> "D1",
    ring |-> << <<0, 0>>, <<40, 0>>, <<40, 40>>, <<0, 40>> >>,
    officers |-> <<
      [ phone |-> "p1", alternate_phone |-> "p2", isActive |-> TRUE ],
      [ phone |-> "p3", alternate_phone |-> NoPhone, isActive |-> FALSE ],
      [ phone |-> NoPhone, alternate_phone |-> "p4", isActive |-> TRUE ],
      [ phone |-> "p5", alternate_phone |-> NoPhone, isActive |-> TRUE ] >> ],
  [ name |-> "D2",
    ring |-> << <<60, 0>>, <<100, 0>>, <<100, 40>>, <<60, 40>> >>,
    officers |-> << >> ],
  [ name |-> "D3",
    ring |-> << <<0, 60>>, <<40, 60>>, <<20, 100>> >>,
    officers |-> <<
      [ phone |-> "p6", alternate_phone |-> "p7", isActive |-> FALSE ] >> ],
  [ name |-> "D4",
    ring |-> << <<60, 60>>, <<100, 60>>, <<100, 100>>, <<60, 100>> >>,
    officers |-> <<
      [ phone |-> "p8", alternate_phone |-> "p8", isActive |-> TRUE ] >> ],
  [ name |-> "D5",
    ring |-> << <<120, 0>>, <<160, 0>>, <<160, 40>>, <<120, 40>> >>,
    officers |-> <<
      [ phone |-> "p9", alternate_phone |-> NoPhone, isActive |-> TRUE ],
      [ phone |-> "p10", alternate_phone |-> NoPhone, isActive |-> TRUE ],
      [ phone |-> "p11", alternate_phone |-> NoPhone, isActive |-> TRUE ] >> ]
>>

Phones == {"p1", "p2", "p3", "p4", "p5", "p6", "p7", "p8", "p9", "p10", "p11"}

\* the locations requests carry (Latitude, Longitude): none, not numbers,
\* inside D1 (twice under one cache key), D2, D3, D4, D5, and outside them all
Locations == { <<Absent, Absent>>, <<NotANumber, Num(20)>>,
               <<Num(20), Num(20)>>, <<Num(24), Num(20)>>,
               <<Num(20), Num(80)>>, <<Num(80), Num(20)>>,
               <<Num(80), Num(80)>>, <<Num(20), Num(140)>>,
               <<Num(50), Num(50)>> }

\* an edge test that looks only at the edge's span of y
\* (EdgeCrossedNoSlope), and
\* isPointInPolygon(point, polygon): even-odd ray casting over the ring's
\* edges (i, j = i - 1, wrapping).  The edge test
\*   ((yi > y) !== (yj > y)) && (x < (xj - xi) * (y - yi) / (yj - yi) + xi)
\* is evaluated without the division: both sides are multiplied by yj - yi,
\* which is not 0 when the first conjunct holds, and the comparison turns
\* when it is negative.
EdgeCrossedNoSlope(x, y, vi, vj) == (vi[2] > y) # (vj[2] > y)

EdgeCrossed(x, y, vi, vj) ==
  LET xi == vi[1]  yi == vi[2]  xj == vj[1]  yj == vj[2]
  IN  /\ (yi > y) # (yj > y)
      /\ IF yj - yi > 0
           THEN (x - xi) * (yj - yi) < (xj - xi) * (y - yi)
           ELSE (x - xi) * (yj - yi) > (xj - xi) * (y - yi)

\* a ray casting that leaves out the edge closing the ring
isPointInPolygonOpenRing(point, polygon) ==
  IF Len(point) < 2 \/ Len(polygon) < 3 THEN FALSE
  ELSE LET crossings == { i \in 2..Len(polygon) :
                            EdgeCrossed(point[1], point[2], polygon[i], polygon[i - 1]) }
       IN  Cardinality(crossings) % 2 = 1

isPointInPolygon(point, polygon) ==
  IF Len(point) < 2 \/ Len(polygon) < 3 THEN FALSE
  ELSE LET n == Len(polygon)
           prev(i) == IF i = 1 THEN n ELSE i - 1
           crossings == { i \in 1..n :
                            EdgeCrossed(point[1], point[2], polygon[i], polygon[prev(i)]) }
       IN  Cardinality(crossings) % 2 = 1

\* Number.prototype.toFixed(6) of a non-negative coordinate: the nearest
\* multiple of 1e-6, the larger one on a tie
toFixed6(c) == (c + 5) \div 10

CacheKeyOfCoarse(lat, lng) == <<toFixed6(lat) \div 100, toFixed6(lng) \div 100>>

CacheKeyOf(lat, lng) == <<toFixed6(lat), toFixed6(lng)>>

\* a cache that never has the entry
CacheGetMiss(cache, key) == NULL

\* NodeCache.get: the entry under the key, or NULL
CacheGet(cache, key) == IF key \in DOMAIN cache THEN cache[key] ELSE NULL

\* NodeCache.set
CacheSet(cache, key, entry) ==
  [k \in DOMAIN cache \cup {key} |-> IF k = key THEN entry ELSE cache[k]]

\* the loop over the divisions read from storage: a division without
\* boundary coordinates (NULL) or with a ring of fewer than 3 vertices is
\* skipped; the first one, from position i on, whose ring holds the point
\* is returned (its position; 0 for none)
RECURSIVE ScanFrom(_, _, _, _)
ScanFrom(divisions, i, lat, lng) ==
  IF i > Len(divisions) THEN 0
  ELSE LET polygon == divisions[i].ring
       IN  IF polygon = NULL \/ Len(polygon) < 3 THEN ScanFrom(divisions, i + 1, lat, lng)
           ELSE IF isPointInPolygon(<<lng, lat>>, polygon) THEN i
           ELSE ScanFrom(divisions, i + 1, lat, lng)

\* a loop that keeps the last division whose ring holds the point
RECURSIVE ScanLastFrom(_, _, _, _)
ScanLastFrom(divisions, i, lat, lng) ==
  IF i = 0 THEN 0
  ELSE LET polygon == divisions[i].ring
       IN  IF polygon = NULL \/ Len(polygon) < 3 THEN ScanLastFrom(divisions, i - 1, lat, lng)
           ELSE IF isPointInPolygon(<<lng, lat>>, polygon) THEN i
           ELSE ScanLastFrom(divisions, i - 1, lat, lng)

ScanLast(divisions, lat, lng) == ScanLastFrom(divisions, Len(divisions), lat, lng)

\* the loop over a whole division list
ScanIn(divisions, lat, lng) == ScanFrom(divisions, 1, lat, lng)

\* the first division, in storage order, whose ring holds the point; 0 for none
ScanDivisions(i, lat, lng) == ScanFrom(Divisions, i, lat, lng)

\* the try block of findDivisionForLocation(latitude, longitude) against the
\* cache `cache`.  dbOk says whether the Division collection answers (find
\* on a miss, findById on a hit).  The result: the division found (its
\* index, 0 for null), the cache afterwards, whether the division list was
\* read, and whether the block threw.
findDivisionForLocationTry(latitude, longitude, cache, dbOk) ==
  LET none == [division |-> 0, cache |-> cache, scanned |-> FALSE, thrown |-> FALSE]
  IN  IF latitude = Absent \/ longitude = Absent THEN none
      ELSE IF ~IsNum(latitude) \/ ~IsNum(longitude) THEN none
      ELSE
        LET lat == latitude[2]
            lng == longitude[2]
            cacheKey == CacheKeyOf(lat, lng)
            cachedDivision == CacheGet(cache, cacheKey)
        IN  IF cachedDivision # NULL
              THEN IF cachedDivision[1] = "division"
                     THEN IF dbOk
                            THEN [none EXCEPT !.division = cachedDivision[2]]
                            ELSE [none EXCEPT !.thrown = TRUE]
                     ELSE none
              ELSE IF ~dbOk THEN [none EXCEPT !.thrown = TRUE]
              ELSE
                LET found == ScanDivisions(1, lat, lng)
                IN  [ division |-> found,
                      cache |-> CacheSet(cache, cacheKey,
                                  IF found # 0 THEN <<"division", found>>
                                               ELSE <<"outside">>),
                      scanned |-> TRUE,
                      thrown |-> FALSE ]

\* a catch that passes the exception on
catchRethrow(attempt) == attempt

\* catch (error) { return null }
catchReturnNull(attempt) ==
  IF attempt.thrown THEN [attempt EXCEPT !.division = 0, !.thrown = FALSE]
  ELSE attempt

\* findDivisionForLocation(latitude, longitude): the try block under its
\* catch; when the Division collection throws, the catch returns null
findDivisionForLocation(latitude, longitude, cache, dbOk) ==
  catchReturnNull(findDivisionForLocationTry(latitude, longitude, cache, dbOk))

\* no function is being examined on its own
NoCall == [fn |-> "none"]

(* ------------------------------ sessions ------------------------------ *)

\* ages of session timestamps stop at the first value past the timeout
SessionAgeCap == conversationTimeout + 1

Older(age, cap) == IF age < cap THEN age + 1 ELSE cap

\* new Session({...}) in getUserSession
NewSession(userId) ==
  [ user_id |-> userId,
    current_state |-> "LANGUAGE_SELECT",
    last_option |-> NULL,
    language |-> "en",
    last_interaction |-> 0,
    user_name |-> NULL ]

\* Session.findOne({ user_id }): the first matching document's position, 0
\* for none
RECURSIVE FindFrom(_, _, _)
FindFrom(store, userId, i) ==
  IF i > Len(store) THEN 0
  ELSE IF store[i].user_id = userId THEN i
  ELSE FindFrom(store, userId, i + 1)

SessionFindOne(store, userId) == FindFrom(store, userId, 1)

\* the Session schema's unique key on user_id: an insert of a second
\* document for the same user is refused (duplicate key)
SessionInsertAllowedNoIndex(store, doc) == TRUE

SessionInsertAllowed(store, doc) ==
  \A i \in 1..Len(store) : store[i].user_id # doc.user_id

\* a save that writes the whole in-memory document
SessionSaveWhole(store, id, doc, loaded, touched) ==
  [store EXCEPT ![id] = doc]

\* document.save() of a loaded document: the modified paths are written
\* under the document's _id, the others keep what the collection holds.
\* touched: last_interaction was assigned a new Date() since the last save
\* (a new Date() always differs from the one loaded).
SessionSaveModified(store, id, doc, loaded, touched) ==
  [store EXCEPT ![id] =
     [f \in DOMAIN doc |->
        IF doc[f] # loaded[f] \/ (touched /\ f = "last_interaction")
          THEN doc[f] ELSE store[id][f]]]

\* getUserSession after findOne returned `found` (id 0: no document): the
\* in-memory document that is then saved
getUserSessionDocAtTimeout(id, found, userId) ==
  IF id = 0 THEN NewSession(userId)
  ELSE IF found.last_interaction >= conversationTimeout
    THEN [found EXCEPT
            !.current_state = IF Truthy(found.user_name) THEN "MENU"
                                                         ELSE "LANGUAGE_SELECT",
            !.last_option = NULL,
            !.last_interaction = 0]
    ELSE [found EXCEPT !.last_interaction = 0]

getUserSessionDoc(id, found, userId) ==
  IF id = 0 THEN NewSession(userId)
  ELSE IF found.last_interaction > conversationTimeout
    THEN [found EXCEPT
            !.current_state = IF Truthy(found.user_name) THEN "MENU"
                                                         ELSE "LANGUAGE_SELECT",
            !.last_option = NULL,
            !.last_interaction = 0]
    ELSE [found EXCEPT !.last_interaction = 0]

\* an update that leaves the state as it is
updateUserSessionDocKeepsState(session, newState, newLastOption, newLanguage) ==
  [session EXCEPT
     !.last_option = newLastOption,
     !.language = IF newLanguage # "" THEN newLanguage ELSE @,
     !.last_interaction = 0]

\* updateUserSession(session, newState, newLastOption, newLanguage), before
\* the save
updateUserSessionDoc(session, newState, newLastOption, newLanguage) ==
  [session EXCEPT
     !.current_state = newState,
     !.last_option = newLastOption,
     !.language = IF newLanguage # "" THEN newLanguage ELSE @,
     !.last_interaction = 0]

(* -------------------------- conversation engine ----------------------- *)

RESET == <<"r","e","s","e","t">>
MENU == <<"m","e","n","u">>

\* the options before the suggestion joined the group
ReportOptionsWithoutSuggestion == { <<"1">>, <<"2">>, <<"3">>, <<"4">>, <<"5">>, <<"6">> }

ReportOptions == { <<"1">>, <<"2">>, <<"3">>, <<"4">>, <<"5">>, <<"6">>, <<"7">> }

\* the webhook's if / else-if chain over (currentState, userMessage): the
\* branch taken, in the order of the source
webhookBranchStateFirst(currentState, userMessage) ==
  IF currentState = "LANGUAGE_SELECT" THEN "LANGUAGE_SELECT"
  ELSE IF currentState = "NAME_COLLECTION" THEN "NAME_COLLECTION"
  ELSE IF userMessage # <<>> /\ toLowerCase(userMessage) = RESET THEN "reset"
  ELSE IF userMessage # <<>> /\ toLowerCase(userMessage) = MENU THEN "menu"
  ELSE IF currentState \in States THEN currentState
  ELSE "default"

webhookBranch(currentState, userMessage) ==
  IF userMessage # <<>> /\ toLowerCase(userMessage) = RESET THEN "reset"
  ELSE IF currentState = "LANGUAGE_SELECT" THEN "LANGUAGE_SELECT"
  ELSE IF currentState = "NAME_COLLECTION" THEN "NAME_COLLECTION"
  ELSE IF userMessage # <<>> /\ toLowerCase(userMessage) = MENU THEN "menu"
  ELSE IF currentState = "MENU" THEN "MENU"
  ELSE IF currentState = "AWAITING_REPORT" THEN "AWAITING_REPORT"
  ELSE IF currentState = "AWAITING_SUGGESTION_TEXT" THEN "AWAITING_SUGGESTION_TEXT"
  ELSE IF currentState = "AWAITING_LOCATION" THEN "AWAITING_LOCATION"
  ELSE IF currentState = "AWAITING_JOIN" THEN "AWAITING_JOIN"
  ELSE "default"

\* what a branch decides: the new state, last option and language, and the
\* outbound message (its template key)
Decision(newState, newLastOption, newLanguage, responseMessage) ==
  [ newState |-> newState, newLastOption |-> newLastOption,
    newLanguage |-> newLanguage, responseMessage |-> responseMessage ]

\* the LANGUAGE_SELECT branch
languageSelectAlwaysAsksName(userSession, userMessage) ==
  LET userLanguage == userSession.language
      lastOption == userSession.last_option
  IN  IF userMessage = <<"1">>
        THEN Decision("NAME_COLLECTION", lastOption, "en", "NAME_REQUEST")
      ELSE IF userMessage = <<"2">>
        THEN Decision("NAME_COLLECTION", lastOption, "mr", "NAME_REQUEST")
      ELSE Decision("LANGUAGE_SELECT", lastOption, userLanguage, "LANGUAGE_PROMPT")

languageSelect(userSession, userMessage) ==
  LET userLanguage == userSession.language
      lastOption == userSession.last_option
      chosen(lang) ==
        IF Truthy(userSession.user_name)
          THEN Decision("MENU", lastOption, lang, "NAME_CONFIRMATION+MENU")
          ELSE Decision("NAME_COLLECTION", lastOption, lang, "NAME_REQUEST")
  IN  IF userMessage = <<"1">> THEN chosen("en")
      ELSE IF userMessage = <<"2">> THEN chosen("mr")
      ELSE Decision("LANGUAGE_SELECT", lastOption, userLanguage, "LANGUAGE_PROMPT")

\* a chain in which every message falls to the final else
decideDefault(branch, userSession, userMessage) ==
  Decision("MENU", NULL, userSession.language, "MENU")

\* a chain whose AWAITING_REPORT branch goes on to ask for the location
decideAwaitsLocation(branch, userSession, userMessage) ==
  IF branch = "AWAITING_REPORT"
    THEN Decision("AWAITING_LOCATION", userSession.last_option, userSession.language, "MENU")
    ELSE decideDefault(branch, userSession, userMessage)

\* the branches that decide without any I/O: reset, LANGUAGE_SELECT, menu,
\* MENU with "8" or an invalid option, AWAITING_REPORT, AWAITING_LOCATION
\* without a location, and the final else
decide(branch, userSession, userMessage) ==
  LET currentState == userSession.current_state
      lastOption == userSession.last_option
      userLanguage == userSession.language
  IN  CASE branch = "reset" ->
             Decision("LANGUAGE_SELECT", NULL, userLanguage, "LANGUAGE_PROMPT")
        [] branch = "LANGUAGE_SELECT" -> languageSelect(userSession, userMessage)
        [] branch = "menu" -> Decision("MENU", NULL, userLanguage, "MENU")
        [] branch = "MENU" ->
             IF userMessage = <<"8">>
               THEN Decision("JOIN_TEAM_LINK_SENT", <<"8">>, userLanguage, "JOIN_FORM_LINK")
               ELSE Decision("MENU", lastOption, userLanguage, "MENU")
        [] branch = "AWAITING_REPORT" -> Decision("MENU", NULL, userLanguage, "MENU")
        [] branch = "AWAITING_LOCATION" ->
             Decision("AWAITING_LOCATION", lastOption, userLanguage, "LOCATION_MISSING_HINT")
        [] OTHER -> Decision("MENU", NULL, userLanguage, "MENU")

\* the report type the AWAITING_LOCATION branch derives from lastOption
chatReportType(lastOption) ==
  CASE lastOption = <<"1">> -> "Traffic Violation"
    [] lastOption = <<"2">> -> "Traffic Congestion"
    [] lastOption = <<"3">> -> "Irregularity"
    [] lastOption = <<"4">> -> "Road Damage"
    [] lastOption = <<"5">> -> "Illegal Parking"
    [] lastOption = <<"6">> -> "Traffic Signal Issue"
    [] lastOption = <<"7">> -> "Suggestion"
    [] OTHER -> "General Report"

\* reportTypes[reportType] || 'Report' of the web submission paths
getReportTypeText(reportType) ==
  CASE reportType = <<"1">> -> "Traffic Violation"
    [] reportType = <<"2">> -> "Traffic Congestion"
    [] reportType = <<"3">> -> "Irregularity"
    [] reportType = <<"4">> -> "Road Damage"
    [] reportType = <<"5">> -> "Illegal Parking"
    [] reportType = <<"6">> -> "Traffic Signal Issue"
    [] reportType = <<"7">> -> "Suggestion"
    [] OTHER -> "Report"

(* --------------------------- officer fan-out -------------------------- *)

\* officers.filter(officer => officer.isActive).slice(0, 2)
RECURSIVE ActiveFrom(_, _)
ActiveFrom(officers, i) ==
  IF i > Len(officers) THEN << >>
  ELSE IF officers[i].isActive THEN <<officers[i]>> \o ActiveFrom(officers, i + 1)
  ELSE ActiveFrom(officers, i + 1)

officersToNotify(division) ==
  LET activeOfficers == ActiveFrom(Divisions[division].officers, 1)
  IN  SubSeq(activeOfficers, 1, IF Len(activeOfficers) < 2 THEN Len(activeOfficers) ELSE 2)

\* the phones a notification of the division's officers may try
PhonesTried(division) ==
  LET selected == { officersToNotify(division)[i] :
                      i \in 1..Len(officersToNotify(division)) }
  IN  ({ o.phone : o \in selected } \cup { o.alternate_phone : o \in selected })
        \ {NoPhone}

\* the webhook's own fan-out: one sendWhatsAppMessage to officer.phone per
\* selected officer, a throw (missing phone, or the send failing) skipping
\* that officer only; `up` are the phones a send reaches.  The result is
\* notifiedOfficers, by phone.
RECURSIVE chatNotifyFrom(_, _, _)
chatNotifyFrom(officers, i, up) ==
  IF i > Len(officers) THEN << >>
  ELSE IF officers[i].phone # NoPhone /\ officers[i].phone \in up
    THEN <<officers[i].phone>> \o chatNotifyFrom(officers, i + 1, up)
    ELSE chatNotifyFrom(officers, i + 1, up)

\* a fan-out that records every officer it tried
chatNotifyOfficersTried(division, up) ==
  chatNotifyFrom(officersToNotify(division), 1, Phones)

chatNotifyOfficers(division, up) ==
  chatNotifyFrom(officersToNotify(division), 1, up)

\* notifyDivisionOfficers(query, division) of utils/whatsapp.js: per selected
\* officer the primary phone, and the alternate phone when the primary is
\* missing or its send failed and the alternate differs from it.  The result
\* is notifiedContacts, by phone.
RECURSIVE notifyFrom(_, _, _)
notifyFrom(officers, i, up) ==
  IF i > Len(officers) THEN << >>
  ELSE LET officer == officers[i]
           rest == notifyFrom(officers, i + 1, up)
       IN  IF officer.phone # NoPhone /\ officer.phone \in up
             THEN <<officer.phone>> \o rest
           ELSE IF /\ officer.alternate_phone # NoPhone
                   /\ officer.alternate_phone # officer.phone
                   /\ officer.alternate_phone \in up
             THEN <<officer.alternate_phone>> \o rest
           ELSE rest

notifyDivisionOfficers(division, up) ==
  IF division = 0 \/ Len(Divisions[division].officers) = 0 THEN << >>
  ELSE notifyFrom(officersToNotify(division), 1, up)

\* the sends of a fan-out that stops at the first officer it cannot reach
RECURSIVE chatAttemptsFromAborting(_, _, _)
chatAttemptsFromAborting(officers, i, up) ==
  IF i > Len(officers) THEN << >>
  ELSE IF officers[i].phone # NoPhone /\ officers[i].phone \in up
    THEN <<officers[i].phone>> \o chatAttemptsFromAborting(officers, i + 1, up)
    ELSE <<officers[i].phone>>

chatAttemptsAborting(division, up) ==
  chatAttemptsFromAborting(officersToNotify(division), 1, up)

\* the calls of sendWhatsAppMessage the webhook's fan-out makes, in order, by
\* the phone passed (NoPhone when officer.phone is missing: the call throws
\* 'Invalid recipient'): the try/catch inside the loop keeps a throw from
\* ending the loop
RECURSIVE chatAttemptsFrom(_, _, _)
chatAttemptsFrom(officers, i, up) ==
  IF i > Len(officers) THEN << >>
  ELSE <<officers[i].phone>> \o chatAttemptsFrom(officers, i + 1, up)

chatAttempts(division, up) ==
  chatAttemptsFrom(officersToNotify(division), 1, up)

\* the calls of client.messages.create notifyDivisionOfficers makes, in
\* order, by the phone passed: the primary when there is one, then the
\* alternate when the primary is missing or its send failed and the
\* alternate differs from it
RECURSIVE notifyAttemptsFrom(_, _, _)
notifyAttemptsFrom(officers, i, up) ==
  IF i > Len(officers) THEN << >>
  ELSE LET officer == officers[i]
           primary == IF officer.phone # NoPhone THEN <<officer.phone>> ELSE << >>
           alternate ==
             IF /\ ~(officer.phone # NoPhone /\ officer.phone \in up)
                /\ officer.alternate_phone # NoPhone
                /\ officer.alternate_phone # officer.phone
               THEN <<officer.alternate_phone>> ELSE << >>
       IN  primary \o alternate \o notifyAttemptsFrom(officers, i + 1, up)

notifyAttempts(division, up) ==
  IF division = 0 \/ Len(Divisions[division].officers) = 0 THEN << >>
  ELSE notifyAttemptsFrom(officersToNotify(division), 1, up)

(* ------------------------------ user ids ------------------------------ *)

RECURSIVE DropSpaces(_)
DropSpaces(s) ==
  IF s # << >> /\ Head(s) = " " THEN DropSpaces(Tail(s)) ELSE s

\* userId.replace(/whatsapp:[ ]*/ig, ''): every scheme prefix and the
\* spaces after it
RECURSIVE RemoveAllSchemes(_)
RemoveAllSchemes(s) ==
  IF s = << >> THEN << >>
  ELSE IF Head(s) = "whatsapp:" THEN RemoveAllSchemes(DropSpaces(Tail(s)))
  ELSE <<Head(s)>> \o RemoveAllSchemes(Tail(s))

\* cleanId.replace(/^\++/, ''): all the leading "+"
RECURSIVE StripLeadingPluses(_)
StripLeadingPluses(s) ==
  IF s # << >> /\ Head(s) = "+" THEN StripLeadingPluses(Tail(s)) ELSE s

\* normalizeUserId(userId, includePrefix)
normalizeUserId(userId, includePrefix) ==
  IF userId = << >>
    THEN IF includePrefix THEN <<"whatsapp:", "+", "unknown">> ELSE <<"unknown">>
    ELSE LET cleanId == StripLeadingPluses(RemoveAllSchemes(userId))
         IN  IF includePrefix THEN <<"whatsapp:", "+">> \o cleanId ELSE cleanId

(* ------------------------------ documents ----------------------------- *)

\* a Query document; `via` records the code path that created it
\* a report document built without its division reference
QueryWithoutDivision(via, userId, queryType, location, division) ==
  [ via |-> via, user_id |-> userId, query_type |-> queryType,
    location |-> location, status |-> "Pending", division |-> 0,
    divisionNotified |-> FALSE, divisionOfficersNotified |-> << >> ]

Query(via, userId, queryType, location, division) ==
  [ via |-> via,
    user_id |-> userId,
    query_type |-> queryType,
    location |-> location,
    status |-> "Pending",
    division |-> division,
    divisionNotified |-> FALSE,
    divisionOfficersNotified |-> << >> ]

\* the location sub-document: parseFloat of both fields
LocationOf(latitude, longitude) ==
  << IF IsNum(latitude) THEN latitude ELSE NotANumber,
     IF IsNum(longitude) THEN longitude ELSE NotANumber >>

(* --------------------------- webhook handlers ------------------------- *)

NoDoc == NewSession(<< >>)

IdleHandler ==
  [ pc |-> "idle", From |-> << >>, Body |-> << >>,
    Latitude |-> Absent, Longitude |-> Absent,
    id |-> 0, found |-> NoDoc, session |-> NoDoc, loaded |-> NoDoc,
    branch |-> "", newState |-> "", newLastOption |-> NULL, newLanguage |-> "",
    responseMessage |-> "", status |-> 0,
    division |-> 0, reached |-> {}, notifiedOfficers |-> << >>, queryId |-> 0,
    trace |-> << >> ]

\* the catch of the webhook: res.status(500)
Thrown(hd) ==
  [hd EXCEPT !.pc = "done", !.status = 500, !.trace = Append(@, "respond 500")]

\* the tail after the branch: the decision is kept for updateUserSession
Decided(hd, branch, userMessage, d) ==
  [hd EXCEPT !.pc = "updateUserSession", !.branch = branch, !.Body = userMessage,
             !.newState = d.newState, !.newLastOption = d.newLastOption,
             !.newLanguage = d.newLanguage, !.responseMessage = d.responseMessage]

\* POST /webhook arrives from userNumber; getUserSession up to its save:
\* Session.findOne, then the branch on the document found
WebhookReceive(h, userNumber, ok) ==
  LET hd == [IdleHandler EXCEPT !.From = userNumber]
      id == SessionFindOne(sessions, userNumber)
      found == IF id = 0 THEN NoDoc ELSE sessions[id]
  IN
  /\ handlers[h].pc = "idle"
  /\ handlers' = [handlers EXCEPT ![h] =
       IF ok THEN [hd EXCEPT !.pc = "getUserSession.save", !.id = id,
                             !.trace = <<"session.findOne">>,
                             !.found = found, !.loaded = found,
                             !.session = getUserSessionDoc(id, found, userNumber)]
             ELSE Thrown(hd)]
  /\ UNCHANGED <<sessions, queries, links, locationCache, web, applications, call>>

\* getUserSession's session.save(): an insert of the new document, or the
\* modified paths of the loaded one
getUserSessionSave(h, ok) ==
  LET hd == handlers[h] IN
  /\ hd.pc = "getUserSession.save"
  /\ IF hd.id = 0
       THEN IF ok /\ SessionInsertAllowed(sessions, hd.session)
              THEN /\ sessions' = Append(sessions, hd.session)
                   /\ handlers' = [handlers EXCEPT ![h] =
                        [hd EXCEPT !.pc = "transition", !.id = Len(sessions) + 1,
                                   !.loaded = hd.session,
                                   !.trace = Append(@, "session.save")]]
              ELSE /\ handlers' = [handlers EXCEPT ![h] = Thrown(hd)]
                   /\ UNCHANGED sessions
       ELSE IF ok
              THEN /\ sessions' = SessionSaveModified(sessions, hd.id, hd.session, hd.loaded, TRUE)
                   /\ handlers' = [handlers EXCEPT ![h] =
                        [hd EXCEPT !.pc = "transition", !.loaded = hd.session,
                                   !.trace = Append(@, "session.save")]]
              ELSE /\ handlers' = [handlers EXCEPT ![h] = Thrown(hd)]
                   /\ UNCHANGED sessions
  /\ UNCHANGED <<queries, links, locationCache, web, applications, call>>

\* the branches of the webhook that decide without I/O
WebhookDecide(h, userMessage) ==
  LET hd == handlers[h]
      branch == webhookBranch(hd.session.current_state, userMessage)
  IN
  /\ hd.pc = "transition"
  /\ \/ branch \in {"reset", "LANGUAGE_SELECT", "menu", "AWAITING_REPORT", "default"}
     \/ branch = "MENU" /\ userMessage \notin ReportOptions
  /\ handlers' = [handlers EXCEPT ![h] =
                    Decided(hd, branch, userMessage, decide(branch, hd.session, userMessage))]
  /\ UNCHANGED <<sessions, queries, links, locationCache, web, applications, call>>

\* NAME_COLLECTION: the message is stored as the name and the document saved
WebhookNameCollection(h, userMessage, ok) ==
  LET hd == handlers[h]
      branch == webhookBranch(hd.session.current_state, userMessage)
      named == [hd.session EXCEPT !.user_name = userMessage]
  IN
  /\ hd.pc = "transition"
  /\ branch = "NAME_COLLECTION"
  /\ IF ok
       THEN /\ sessions' = SessionSaveModified(sessions, hd.id, named, hd.loaded, FALSE)
            /\ handlers' = [handlers EXCEPT ![h] =
                 Decided([hd EXCEPT !.session = named, !.loaded = named,
                                    !.trace = Append(@, "session.save")],
                         branch, userMessage,
                         Decision("MENU", hd.session.last_option, hd.session.language,
                                  "NAME_CONFIRMATION+MENU"))]
       ELSE /\ handlers' = [handlers EXCEPT ![h] =
                 Thrown([hd EXCEPT !.Body = userMessage, !.branch = branch])]
            /\ UNCHANGED sessions
  /\ UNCHANGED <<queries, links, locationCache, web, applications, call>>

\* ages of link timestamps, in seconds, stop at the first value past the
\* lifetime
LinkAgeCap == linkLifetime * 60 + 1

\* a ReportLink document as getCaptureUrl stores it: the user id without
\* scheme and "+", unused, created now
NewLink(linkId, userNumber, reportType) ==
  [ linkId |-> linkId,
    userId |-> normalizeUserId(userNumber, FALSE),
    reportType |-> reportType,
    createdAt |-> 0,
    used |-> FALSE,
    usedAt |-> << >> ]

\* MENU with "1".."7": getCaptureUrl stores a link and the session awaits the
\* report; when it throws the state is kept
WebhookMenuReport(h, userMessage, ok) ==
  LET hd == handlers[h]
      branch == webhookBranch(hd.session.current_state, userMessage)
      linkId == Len(links) + 1
  IN
  /\ hd.pc = "transition"
  /\ branch = "MENU" /\ userMessage \in ReportOptions
  /\ IF ok /\ Len(links) < MaxLinks
       THEN /\ links' = Append(links, NewLink(linkId, hd.From, userMessage))
            /\ handlers' = [handlers EXCEPT ![h] =
                 Decided([hd EXCEPT !.trace = Append(@, "link.save")],
                         branch, userMessage,
                         Decision("AWAITING_REPORT", userMessage, hd.session.language,
                                  "CAMERA_INSTRUCTIONS"))]
       ELSE /\ handlers' = [handlers EXCEPT ![h] =
                 Decided(hd, branch, userMessage,
                         Decision(hd.session.current_state, hd.session.last_option,
                                  hd.session.language, "TECHNICAL_DIFFICULTIES"))]
            /\ UNCHANGED links
  /\ UNCHANGED <<sessions, queries, locationCache, web, applications, call>>

\* AWAITING_SUGGESTION_TEXT: the text is saved as a Suggestion; a failing
\* save is caught
WebhookSuggestionText(h, userMessage, ok) ==
  LET hd == handlers[h]
      branch == webhookBranch(hd.session.current_state, userMessage)
  IN
  /\ hd.pc = "transition"
  /\ branch = "AWAITING_SUGGESTION_TEXT"
  /\ IF ok /\ Len(queries) < MaxQueries
       THEN /\ queries' = Append(queries,
                 Query("webhook", hd.From, "Suggestion", NULL, 0))
            /\ handlers' = [handlers EXCEPT ![h] =
                 Decided([hd EXCEPT !.queryId = Len(queries) + 1,
                                    !.trace = Append(@, "query.save")],
                         branch, userMessage,
                         Decision("MENU", NULL, hd.session.language, "SUGGESTION_RESPONSE"))]
       ELSE /\ handlers' = [handlers EXCEPT ![h] =
                 Decided(hd, branch, userMessage,
                         Decision("MENU", NULL, hd.session.language, "REPORT_ERROR"))]
            /\ UNCHANGED queries
  /\ UNCHANGED <<sessions, links, locationCache, web, applications, call>>

\* AWAITING_JOIN: the message is saved as a Join Request, then the email is
\* tried; a failing save is not caught in the branch
WebhookJoin(h, userMessage, ok) ==
  LET hd == handlers[h]
      branch == webhookBranch(hd.session.current_state, userMessage)
  IN
  /\ hd.pc = "transition"
  /\ branch = "AWAITING_JOIN"
  /\ IF ok /\ Len(queries) < MaxQueries
       THEN /\ queries' = Append(queries,
                 Query("webhook", hd.From, "Join Request", NULL, 0))
            /\ handlers' = [handlers EXCEPT ![h] =
                 Decided([hd EXCEPT !.queryId = Len(queries) + 1,
                                    !.trace = @ \o <<"query.save", "email">>],
                         branch, userMessage,
                         Decision("MENU", NULL, hd.session.language, "JOIN_RESPONSE"))]
       ELSE /\ handlers' = [handlers EXCEPT ![h] =
                 Thrown([hd EXCEPT !.Body = userMessage, !.branch = branch])]
            /\ UNCHANGED queries
  /\ UNCHANGED <<sessions, links, locationCache, web, applications, call>>

\* AWAITING_LOCATION.  Without both coordinates the hint is sent and the
\* state kept.  Otherwise: resolve the division; notify up to two active
\* officers; save the report only when one was notified; resend the
\* notification with the report's link; try the email; save the session's
\* cleared draft fields.  dbOk: the Division collection answers; up: the
\* phones a send reaches; saveOk, sessionOk: newQuery.save() and
\* userSession.save() succeed.
\* divisionNotified of the AWAITING_LOCATION branch: at least one officer
\* was notified
divisionNotifiedAlways(notifiedOfficers) == TRUE

divisionNotified(notifiedOfficers) == Len(notifiedOfficers) > 0

WebhookLocation(h, userMessage, latitude, longitude, dbOk) ==
  LET hd == handlers[h]
      branch == webhookBranch(hd.session.current_state, userMessage)
      userLanguage == hd.session.language
      lastOption == hd.session.last_option
      at == [hd EXCEPT !.Latitude = latitude, !.Longitude = longitude]
      r == findDivisionForLocation(latitude, longitude, locationCache, dbOk)
      matchingDivision == r.division
      newQuery(notifiedOfficers) ==
        [Query("webhook", hd.From, chatReportType(lastOption),
               LocationOf(latitude, longitude), matchingDivision)
           EXCEPT !.divisionNotified = TRUE,
                  !.divisionOfficersNotified = notifiedOfficers]
      notified(notifiedOfficers, up) ==
        [at EXCEPT !.division = matchingDivision,
                   !.reached = up,
                   !.notifiedOfficers = notifiedOfficers,
                   !.trace = @ \o <<"resolve", "officers.notify">>
                               \o chatAttempts(matchingDivision, up)]
  IN
  /\ hd.pc = "transition"
  /\ branch = "AWAITING_LOCATION"
  /\ UNCHANGED <<sessions, links, web, applications, call>>
  /\ IF latitude = Absent \/ longitude = Absent
       THEN /\ handlers' = [handlers EXCEPT ![h] =
                 Decided(at, branch, userMessage, decide(branch, hd.session, userMessage))]
            /\ UNCHANGED <<queries, locationCache>>
     ELSE IF matchingDivision = 0
       THEN /\ locationCache' = r.cache
            /\ handlers' = [handlers EXCEPT ![h] =
                 Decided([at EXCEPT !.trace = Append(@, "resolve")],
                         branch, userMessage,
                         Decision("MENU", NULL, userLanguage,
                                  "LOCATION_OUTSIDE_JURISDICTION"))]
            /\ UNCHANGED queries
     ELSE
       /\ locationCache' = r.cache
       /\ \E up \in SUBSET PhonesTried(matchingDivision) :
            LET notifiedOfficers == chatNotifyOfficers(matchingDivision, up) IN
            IF ~divisionNotified(notifiedOfficers)
              THEN /\ handlers' = [handlers EXCEPT ![h] =
                        Decided(notified(notifiedOfficers, up), branch, userMessage,
                                Decision("MENU", NULL, userLanguage, "NOTIFICATION_FAILED"))]
                   /\ UNCHANGED queries
              ELSE \E saveOk \in BOOLEAN :
                IF ~(saveOk /\ Len(queries) < MaxQueries)
                  THEN /\ handlers' = [handlers EXCEPT ![h] =
                            Thrown([notified(notifiedOfficers, up) EXCEPT
                                      !.Body = userMessage, !.branch = branch])]
                       /\ UNCHANGED queries
                  ELSE
                    /\ queries' = Append(queries, newQuery(notifiedOfficers))
                    /\ \E sessionOk \in BOOLEAN :
                         LET saved == [notified(notifiedOfficers, up) EXCEPT
                                         !.queryId = Len(queries) + 1,
                                         !.trace = @ \o <<"query.save", "officers.resend",
                                                          "email">>]
                         IN  handlers' = [handlers EXCEPT ![h] =
                               IF sessionOk
                                 THEN Decided([saved EXCEPT
                                                 !.trace = Append(@, "session.save")],
                                              branch, userMessage,
                                              Decision("MENU", NULL, userLanguage,
                                                       "REPORT_RESPONSE"))
                                 ELSE Thrown([saved EXCEPT !.Body = userMessage,
                                                           !.branch = branch])]

\* a tail that sends the response message before it saves the session
updateUserSessionAfterSend(h, ok, sendOk) ==
  LET hd == handlers[h]
      session == updateUserSessionDoc(hd.session, hd.newState, hd.newLastOption,
                                      hd.newLanguage)
      sent == [hd EXCEPT !.trace = Append(@, "message.send")]
      updated == [sent EXCEPT !.session = session, !.loaded = session,
                              !.pc = "done", !.status = 200,
                              !.trace = @ \o <<"session.update", "respond 200">>]
  IN
  /\ hd.pc = "updateUserSession"
  /\ IF sendOk /\ ok
       THEN /\ sessions' = SessionSaveModified(sessions, hd.id, session, hd.loaded, TRUE)
            /\ handlers' = [handlers EXCEPT ![h] = updated]
       ELSE /\ handlers' = [handlers EXCEPT ![h] = Thrown(IF sendOk THEN sent ELSE hd)]
            /\ UNCHANGED sessions
  /\ UNCHANGED <<queries, links, locationCache, web, applications, call>>

\* the tail of the webhook: updateUserSession(userSession, newState,
\* newLastOption, newLanguage), client.messages.create of the response,
\* res.status(200); a throw of either ends in the catch
updateUserSession(h, ok, sendOk) ==
  LET hd == handlers[h]
      session == updateUserSessionDoc(hd.session, hd.newState, hd.newLastOption,
                                      hd.newLanguage)
      updated == [hd EXCEPT !.session = session, !.loaded = session,
                            !.trace = Append(@, "session.update")]
  IN
  /\ hd.pc = "updateUserSession"
  /\ IF ok
       THEN /\ sessions' = SessionSaveModified(sessions, hd.id, session, hd.loaded, TRUE)
            /\ handlers' = [handlers EXCEPT ![h] =
                 IF sendOk
                   THEN [updated EXCEPT !.pc = "done", !.status = 200,
                                        !.trace = @ \o <<"message.send", "respond 200">>]
                   ELSE Thrown(updated)]
       ELSE /\ handlers' = [handlers EXCEPT ![h] = Thrown([hd EXCEPT !.session = session])]
            /\ UNCHANGED sessions
  /\ UNCHANGED <<queries, links, locationCache, web, applications, call>>

\* the request is over
WebhookDone(h) ==
  /\ handlers[h].pc = "done"
  /\ handlers' = [handlers EXCEPT ![h] = IdleHandler]
  /\ UNCHANGED <<sessions, queries, links, locationCache, web, applications, call>>

(* --------------------------- web submissions -------------------------- *)

\* what the last web request did: its endpoint, the HTTP status and the
\* error of its response ("" for none), the link it named (0 for none),
\* whether findOneAndUpdate matched a link and whether that link was used
\* before, the processing result's success ("" when there was none), the
\* report it stored (0 for none), its steps in order, and the user id and
\* the location it carried
WebResult(endpoint, userId, location, status, error, linkId, linkFound, linkUsedBefore, success, queryId, trace) ==
  [ userId |-> userId, location |-> location,
    endpoint |-> endpoint, status |-> status, error |-> error, linkId |-> linkId,
    linkFound |-> linkFound, linkUsedBefore |-> linkUsedBefore,
    success |-> success, queryId |-> queryId, trace |-> trace ]

NoWebRequest == WebResult("none", << >>, <<Absent, Absent>>, 0, "", 0, FALSE, FALSE, "", 0, << >>)

\* the filter { linkId, $or: [{ userId: clean }, { userId: '+' + clean }] }:
\* the position of the link it matches, 0 for none
RECURSIVE LinkFrom(_, _, _, _)
LinkFrom(store, linkId, clean, i) ==
  IF i > Len(store) THEN 0
  ELSE IF /\ store[i].linkId = linkId
          /\ (store[i].userId = clean \/ store[i].userId = <<"+">> \o clean)
    THEN i
  ELSE LinkFrom(store, linkId, clean, i + 1)

LinkFindOne(store, linkId, clean) == LinkFrom(store, linkId, clean, 1)

\* ReportLink.findOneAndUpdate(filter, { $set: { used: true, usedAt: new
\* Date() } }): the collection afterwards
LinkMarkUsed(store, at) ==
  IF at = 0 THEN store
  ELSE [store EXCEPT ![at] = [@ EXCEPT !.used = TRUE, !.usedAt = <<0>>]]

\* an update of the notification status whatever the contacts are
notificationUpdateAlways(query, notifiedContacts) ==
  [query EXCEPT !.divisionNotified = TRUE,
                !.divisionOfficersNotified = notifiedContacts]

\* the stored report after "Update query with notification status":
\* Query.findByIdAndUpdate sets divisionNotified and divisionOfficersNotified
\* together, and only when notifiedContacts.length > 0
notificationUpdate(query, notifiedContacts) ==
  IF Len(notifiedContacts) > 0
    THEN [query EXCEPT !.divisionNotified = TRUE,
                       !.divisionOfficersNotified = notifiedContacts]
    ELSE query

\* POST /api/report.  The link is marked used first (a throw of the update
\* is caught); then the division is resolved and, if there is none, the user
\* is told and 400 returned; then processReportInBackground (with a file) or
\* processReportWithoutImage runs to its end, and 200 success:true is
\* returned whatever it returned.  Both processing functions: resolve the
\* division again; save the Query; confirm to the user; notify the officers;
\* and, if any was notified, update the Query.  Every throw inside them is
\* caught and makes the result success:false.
\* linkOk, dbOk, dbAgainOk, saveOk, sendOk, updateOk: the link update, the
\* two division reads, the Query save, the sends to the user and the Query
\* update succeed; up: the phones a send reaches.
ApiReport(userId, reportType, latitude, longitude, linkId, hasFile, linkOk, dbOk, sendOk) ==
  LET cleanUserId == normalizeUserId(userId, TRUE)
      cleanUserIdWithoutPrefix == normalizeUserId(userId, FALSE)
      at == IF linkId # 0 /\ linkOk
              THEN LinkFindOne(links, linkId, cleanUserIdWithoutPrefix) ELSE 0
      linkFound == at # 0
      linkUsedBefore == at # 0 /\ links[at].used
      consumed == IF linkId # 0 THEN <<"link.consume">> ELSE << >>
      r == findDivisionForLocation(latitude, longitude, locationCache, dbOk)
      matchingDivision == r.division
      via == IF hasFile THEN "processReportInBackground"
                        ELSE "processReportWithoutImage"
      result(status, error, success, queryId, trace) ==
        WebResult("/api/report", userId, <<latitude, longitude>>, status, error, linkId,
                  linkFound, linkUsedBefore,
                  success, queryId, consumed \o trace)
  IN
  /\ UNCHANGED <<sessions, handlers, applications, call>>
  /\ IF userId = << >> \/ reportType = << >>
       THEN /\ web' = WebResult("/api/report", userId, <<latitude, longitude>>, 400,
                                "Missing required fields",
                                linkId, FALSE, FALSE, "", 0, <<"respond 400">>)
            /\ UNCHANGED <<queries, links, locationCache>>
     ELSE
       /\ links' = LinkMarkUsed(links, at)
       /\ IF matchingDivision = 0
            THEN /\ locationCache' = r.cache
                 /\ UNCHANGED queries
                 /\ web' = IF sendOk
                      THEN result(400, "Location outside jurisdiction", "", 0,
                                  <<"resolve", "user.send", "respond 400">>)
                      ELSE result(500, "error", "", 0, <<"resolve", "respond 500">>)
          ELSE
            \E dbAgainOk \in BOOLEAN :
              LET again == findDivisionForLocation(latitude, longitude, r.cache, dbAgainOk)
                  division == again.division
                  query == Query(via, cleanUserId, getReportTypeText(reportType),
                                 LocationOf(latitude, longitude), division)
              IN
              /\ locationCache' = again.cache
              /\ IF division = 0
                   THEN /\ UNCHANGED queries
                        /\ web' = result(200, "", "false", 0,
                                    <<"resolve", "resolve", "respond 200">>)
                 ELSE \E saveOk \in BOOLEAN :
                   IF ~(saveOk /\ Len(queries) < MaxQueries)
                     THEN /\ UNCHANGED queries
                          /\ web' = result(200, "", "false", 0,
                                      <<"resolve", "resolve", "respond 200">>)
                   ELSE IF ~sendOk
                     THEN /\ queries' = Append(queries, query)
                          /\ web' = result(200, "", "false", Len(queries) + 1,
                                      <<"resolve", "resolve", "query.save",
                                        "respond 200">>)
                   ELSE \E up \in SUBSET PhonesTried(division), updateOk \in BOOLEAN :
                     LET notifiedContacts == notifyDivisionOfficers(division, up)
                         steps == <<"resolve", "resolve", "query.save", "user.send",
                                    "officers.notify">>
                                    \o notifyAttempts(division, up)
                     IN
                     IF notifiedContacts = << >>
                       THEN /\ queries' = Append(queries,
                                   notificationUpdate(query, notifiedContacts))
                            /\ web' = result(200, "", "true", Len(queries) + 1,
                                        steps \o <<"respond 200">>)
                     ELSE IF ~updateOk
                       THEN /\ queries' = Append(queries, query)
                            /\ web' = result(200, "", "false", Len(queries) + 1,
                                        steps \o <<"respond 200">>)
                     ELSE /\ queries' = Append(queries,
                                   notificationUpdate(query, notifiedContacts))
                          /\ web' = result(200, "", "true", Len(queries) + 1,
                                      steps \o <<"query.update", "respond 200">>)

\* userId.replace(/whatsapp:[ ]*/i, ''): the first scheme prefix and the
\* spaces after it
RECURSIVE RemoveFirstScheme(_)
RemoveFirstScheme(s) ==
  IF s = << >> THEN << >>
  ELSE IF Head(s) = "whatsapp:" THEN DropSpaces(Tail(s))
  ELSE <<Head(s)>> \o RemoveFirstScheme(Tail(s))

\* .replace(/^\+/, ''): one leading "+"
StripLeadingPlus(s) ==
  IF s # << >> /\ Head(s) = "+" THEN Tail(s) ELSE s

\* userId.replace(/whatsapp:[ ]*(\+?)whatsapp:[ ]*(\+?)/i, 'whatsapp:+'):
\* the first doubled scheme prefix becomes one
RECURSIVE CollapseDoubledScheme(_)
CollapseDoubledScheme(s) ==
  IF s = << >> THEN << >>
  ELSE LET afterFirst == StripLeadingPlus(DropSpaces(Tail(s)))
       IN  IF /\ Head(s) = "whatsapp:"
              /\ afterFirst # << >>
              /\ Head(afterFirst) = "whatsapp:"
             THEN <<"whatsapp:", "+">> \o StripLeadingPlus(DropSpaces(Tail(afterFirst)))
           ELSE <<Head(s)>> \o CollapseDoubledScheme(Tail(s))

\* an endpoint that answers after its processing: 202 after the save and
\* the confirmation, 500 when the save throws
suggestionStepsAwaited(saved, sendOk) ==
  IF saved
    THEN <<"query.save", IF sendOk THEN "user.send" ELSE "user.send throws",
           "respond 202">>
    ELSE <<"query.save throws", "respond 500">>

\* the steps of POST /api/suggestion from its answer on: res.status(202),
\* then in setImmediate newSuggestion.save() and the confirmation to the
\* user, each throw caught and logged
suggestionSteps(saved, sendOk) ==
  IF saved
    THEN <<"respond 202", "query.save",
           IF sendOk THEN "user.send" ELSE "user.send throws">>
    ELSE <<"respond 202", "query.save throws">>

\* POST /api/suggestion.  400 without description or userId; the link is
\* marked used (a throw of the update gives 500); 202 is returned; then the
\* background step saves a Suggestion without resolving any division and
\* confirms to the user (a throw of either is caught).
ApiSuggestion(description, userId, latitude, longitude, linkId, linkOk, saveOk) ==
  LET cleanUserId == StripLeadingPlus(RemoveFirstScheme(userId))
      at == IF linkId # 0 /\ linkOk
              THEN LinkFindOne(links, linkId, cleanUserId) ELSE 0
      linkFound == at # 0
      linkUsedBefore == at # 0 /\ links[at].used
      consumed == IF linkId # 0 THEN <<"link.consume">> ELSE << >>
      newSuggestion ==
        Query("/api/suggestion", CollapseDoubledScheme(userId), "Suggestion",
              IF latitude # Absent /\ longitude # Absent
                THEN LocationOf(latitude, longitude) ELSE NULL,
              0)
      result(status, error, queryId, trace) ==
        WebResult("/api/suggestion", userId, <<latitude, longitude>>, status, error, linkId, linkFound,
                  linkUsedBefore, "", queryId, trace)
  IN
  /\ UNCHANGED <<sessions, locationCache, handlers, applications, call>>
  /\ IF ~Truthy(description) \/ userId = << >>
       THEN /\ web' = WebResult("/api/suggestion", userId, <<latitude, longitude>>, 400,
                                "Missing required fields",
                                linkId, FALSE, FALSE, "", 0, <<"respond 400">>)
            /\ UNCHANGED <<queries, links>>
     ELSE IF linkId # 0 /\ ~linkOk
       THEN /\ web' = result(500, "Internal server error", 0, <<"respond 500">>)
            /\ UNCHANGED <<queries, links>>
     ELSE /\ links' = LinkMarkUsed(links, at)
          /\ IF saveOk /\ Len(queries) < MaxQueries
               THEN /\ queries' = Append(queries, newSuggestion)
                    /\ \E sendOk \in BOOLEAN :
                         web' = result(202, "", Len(queries) + 1,
                                  consumed \o suggestionSteps(TRUE, sendOk))
               ELSE /\ UNCHANGED queries
                    /\ web' = result(202, "", 0, consumed \o suggestionSteps(FALSE, TRUE))

(* ---------------------------- link validation ------------------------- *)

\* ReportLink.findOne({ linkId }): the position of the link, 0 for none
RECURSIVE LinkByIdFrom(_, _, _)
LinkByIdFrom(store, linkId, i) ==
  IF i > Len(store) THEN 0
  ELSE IF store[i].linkId = linkId THEN i
  ELSE LinkByIdFrom(store, linkId, i + 1)

\* a link that expires on reaching its lifetime
expiredAtLifetime(link) == link.createdAt >= linkLifetime * 60

\* diffMinutes > 5, with diffMinutes = |now - createdAt| / 60000
expired(link) == link.createdAt > linkLifetime * 60

\* the answer of a link endpoint: its status and message, and the link it
\* looked at
LinkAnswer(endpoint, userId, linkId, at, status, message) ==
  WebResult(endpoint, userId, <<Absent, Absent>>, status, message, linkId, at # 0,
            at # 0 /\ links[at].used, "", 0, <<>>)

\* a lookup under the user id as it was sent
checkLinkValidityUnprefixed(store, linkId, userId) ==
  LinkFindOne(store, linkId, userId)

\* cleanUserId, then ReportLink.findOne({ linkId, $or: [{ userId: cleanUserId },
\* { userId: '+' + cleanUserId }] })
checkLinkValidityFind(store, linkId, userId) ==
  LinkFindOne(store, linkId, StripLeadingPlus(RemoveFirstScheme(userId)))

\* GET /api/check-link-validity: existence, then the used flag, then age
CheckLinkValidity(linkId, userId, ok) ==
  LET at == checkLinkValidityFind(links, linkId, userId)
      answer(found, status, message) ==
        LinkAnswer("/api/check-link-validity", userId, linkId, found, status, message)
  IN
  /\ web' =
       IF linkId = 0 \/ userId = << >>
         THEN answer(0, 400, "Missing required parameters")
       ELSE IF ~ok
         THEN answer(0, 500, "An error occurred checking the link validity")
       ELSE IF at = 0
         THEN answer(at, 404, "This reporting link was not found")
       ELSE IF links[at].used
         THEN answer(at, 403, "This reporting link has already been used")
       ELSE IF expired(links[at])
         THEN answer(at, 403, "This reporting link has expired")
       ELSE answer(at, 200, "")
  /\ UNCHANGED <<sessions, queries, links, locationCache, handlers, applications, call>>

\* GET /r/:linkId: existence, then age, then the used flag
Redirect(linkId, ok) ==
  LET at == LinkByIdFrom(links, linkId, 1)
      answer(found, status, message) ==
        LinkAnswer("/r/:linkId", << >>, linkId, found, status, message)
  IN
  /\ web' =
       IF ~ok THEN answer(0, 500, "Error processing report link.")
       ELSE IF at = 0 THEN answer(at, 404, "Report link not found or invalid.")
       ELSE IF expired(links[at]) THEN answer(at, 410, "Report link has expired.")
       ELSE IF links[at].used
         THEN answer(at, 403, "Report link has already been used.")
       ELSE answer(at, 302, "")
  /\ UNCHANGED <<sessions, queries, links, locationCache, handlers, applications, call>>

\* the ring's vertex list, started k vertices later
Rotate(polygon, k) ==
  [i \in 1..Len(polygon) |-> polygon[((i + k - 1) % Len(polygon)) + 1]]

\* isPointInPolygon(point, polygon) is called on a ring as it is stored and
\* on the same ring with its vertex list rotated by k
PointInPolygonCall(point, polygon, k) ==
  /\ call = NoCall
  /\ call' = [ fn |-> "isPointInPolygon", point |-> point, polygon |-> polygon,
               rotation |-> k,
               inside |-> isPointInPolygon(point, polygon),
               rotated |-> isPointInPolygon(point, Rotate(polygon, k)) ]
  /\ UNCHANGED <<sessions, queries, links, locationCache, handlers, web, applications>>

\* the loop of findDivisionForLocation is examined on its own over a
\* division list read from storage
ScanCall(divisions, lat, lng) ==
  /\ call = NoCall
  /\ call' = [ fn |-> "scan", divisions |-> divisions, lat |-> lat, lng |-> lng,
               returned |-> ScanIn(divisions, lat, lng) ]
  /\ UNCHANGED <<sessions, queries, links, locationCache, handlers, web, applications>>

\* the call has returned
PointInPolygonReturn ==
  /\ call # NoCall
  /\ call' = NoCall
  /\ UNCHANGED <<sessions, queries, links, locationCache, handlers, web, applications>>

(* --------------------------- team applications ------------------------ *)

\* the TeamApplication collection takes at most MaxApplications documents
MaxApplications == 1

\* dates are <<year, month, day>>; the day the requests arrive
Today == <<2025, 6, 15>>

\* birthDate > today
After(d, e) ==
  \/ d[1] > e[1]
  \/ d[1] = e[1] /\ d[2] > e[2]
  \/ d[1] = e[1] /\ d[2] = e[2] /\ d[3] > e[3]

\* age < 18 || (age === 18 && monthDiff < 0)
\*          || (age === 18 && monthDiff === 0 && today.getDate() < birthDate.getDate())
Under18(birthDate, today) ==
  LET age == today[1] - birthDate[1]
      monthDiff == today[2] - birthDate[2]
  IN  \/ age < 18
      \/ age = 18 /\ monthDiff < 0
      \/ age = 18 /\ monthDiff = 0 /\ today[3] < birthDate[3]

\* /^[A-Za-z\s.'()-]+$/.test(fullName)
NameChars ==
  { "A", "E", "M", "N", "R", "S", "T", "U", "a", "e", "m", "n", "r", "s", "t", "u",
    " ", ".", "'", "(", ")", "-" }

nameRegex(fullName) ==
  fullName # << >> /\ \A i \in 1..Len(fullName) : fullName[i] \in NameChars

\* Session.findOne({ user_id: userId }): the position of the session, 0 for none
RECURSIVE SessionByUserIdFrom(_, _, _)
SessionByUserIdFrom(store, userId, i) ==
  IF i > Len(store) THEN 0
  ELSE IF store[i].user_id = userId THEN i
  ELSE SessionByUserIdFrom(store, userId, i + 1)

\* hasCourtCase === 'true' || hasCourtCase === true
hasCourt(hasCourtCase) == hasCourtCase = "true"

\* new TeamApplication({...})
TeamApplication(userId, userName, fullName, dateOfBirth, court, courtCaseDescription) ==
  [ user_id |-> userId, user_name |-> userName, full_name |-> fullName,
    date_of_birth |-> dateOfBirth, has_court_case |-> court,
    court_case_description |-> IF court THEN courtCaseDescription ELSE << >>,
    status |-> "Pending" ]

\* A join-team submission, as POST /api/join-team of server.js
\* (checksBirthDate) and as submitApplication of the controller handle it:
\* the required fields, the name, the date of birth (server.js only), the
\* session, the document and its upload, the court-case description, the
\* save, the confirmation.  filled: the required fields other than userId,
\* fullName and dateOfBirth are there; findOk, uploadOk, saveOk, sendOk:
\* Session.findOne, uploadImageToR2, application.save() and
\* sendWhatsAppMessage succeed.
JoinSubmission(endpoint, checksBirthDate, userId, filled, fullName, dateOfBirth, hasFile, hasCourtCase, courtCaseDescription, findOk, uploadOk, saveOk, sendOk) ==
  LET answer(status, error, trace) ==
        WebResult(endpoint, userId, <<Absent, Absent>>, status, error, 0, FALSE, FALSE,
                  IF status = 201 THEN "true" ELSE "false", 0,
                  Append(trace, IF status = 201 THEN "respond 201"
                                ELSE IF status = 400 THEN "respond 400"
                                ELSE IF status = 404 THEN "respond 404"
                                ELSE "respond 500"))
      thrown(trace) == answer(500, "Internal server error. Please try again later.", trace)
      at == SessionByUserIdFrom(sessions, userId, 1)
      court == hasCourt(hasCourtCase)
      userName ==
        IF Truthy(sessions[at].user_name) THEN sessions[at].user_name
        ELSE IF checksBirthDate /\ fullName # << >> THEN fullName
        ELSE <<"U", "n", "k", "n", "o", "w", "n">>
      application ==
        TeamApplication(userId, userName, fullName,
                        IF checksBirthDate THEN dateOfBirth ELSE Absent,
                        court, courtCaseDescription)
      create(trace) ==
        IF ~(saveOk /\ Len(applications) < MaxApplications)
          THEN /\ web' = thrown(trace)
               /\ UNCHANGED applications
        ELSE /\ applications' = Append(applications, application)
             /\ web' = IF sendOk
                         THEN answer(201, "", trace \o <<"application.save", "user.send">>)
                         ELSE thrown(Append(trace, "application.save"))
      rejected(error, trace) ==
        /\ web' = answer(400, error, trace)
        /\ UNCHANGED applications
      courtCaseMissing == court /\ courtCaseDescription = << >>
      courtCaseError ==
        "Court case description is required when \"Has court case\" is selected"
  IN
  /\ UNCHANGED <<sessions, queries, links, locationCache, handlers, call>>
  /\ IF userId = << >> \/ ~filled \/ fullName = << >>
          \/ (checksBirthDate /\ dateOfBirth = Absent)
       THEN rejected("All required fields must be filled", << >>)
     ELSE IF ~nameRegex(fullName)
       THEN rejected("Name should only contain letters and basic characters", << >>)
     ELSE IF checksBirthDate /\ After(dateOfBirth, Today)
       THEN rejected("Date of birth cannot be in the future", << >>)
     ELSE IF checksBirthDate /\ Under18(dateOfBirth, Today)
       THEN rejected("Applicant must be at least 18 years old", << >>)
     ELSE IF ~findOk
       THEN /\ web' = thrown(<< >>)
            /\ UNCHANGED applications
     ELSE IF at = 0
       THEN /\ web' = answer(404, "User not found", << >>)
            /\ UNCHANGED applications
     ELSE IF ~hasFile
       THEN rejected("Aadhar document is required", << >>)
     ELSE IF ~uploadOk
       THEN /\ web' = thrown(<< >>)
            /\ UNCHANGED applications
     ELSE IF courtCaseMissing
       THEN rejected(courtCaseError, <<"r2.upload">>)
     ELSE create(<<"r2.upload">>)

\* app.post('/api/join-team', upload.single('aadharDocument'), ...)
ApiJoinTeam(userId, filled, fullName, dateOfBirth, hasFile, hasCourtCase, courtCaseDescription, faults) ==
  JoinSubmission("/api/join-team", TRUE, userId, filled, fullName, dateOfBirth, hasFile,
                 hasCourtCase, courtCaseDescription,
                 faults # "find", faults # "upload", faults # "save", faults # "send")

\* exports.submitApplication of controllers/teamApplicationController.js
submitApplication(userId, filled, fullName, hasFile, hasCourtCase, courtCaseDescription, faults) ==
  JoinSubmission("submitApplication", FALSE, userId, filled, fullName, Absent, hasFile,
                 hasCourtCase, courtCaseDescription,
                 faults # "find", faults # "upload", faults # "save", faults # "send")

(* ------------------------ functions on their own ---------------------- *)

\* the division a cache entry stands for, 0 for the outside marker
DivisionOfEntry(entry) == IF entry[1] = "division" THEN entry[2] ELSE 0

\* a caller awaits findDivisionForLocation(latitude, longitude): what was in
\* the cache under the coordinate's key, and what the call returned
Resolve(latitude, longitude, dbOk) ==
  LET r == findDivisionForLocation(latitude, longitude, locationCache, dbOk)
      numbers == IsNum(latitude) /\ IsNum(longitude)
      cacheKey == IF numbers THEN CacheKeyOf(latitude[2], longitude[2]) ELSE << >>
  IN
  /\ call' = [ fn |-> "findDivisionForLocation",
               latitude |-> latitude, longitude |-> longitude, dbOk |-> dbOk,
               cacheKey |-> cacheKey,
               cached |-> IF numbers /\ cacheKey \in DOMAIN locationCache
                            THEN locationCache[cacheKey] ELSE NULL,
               division |-> r.division, scanned |-> r.scanned, thrown |-> r.thrown ]
  /\ locationCache' = r.cache
  /\ UNCHANGED <<sessions, queries, links, handlers, web, applications>>

\* the response of the web request has been delivered
WebDone ==
  /\ web # NoWebRequest
  /\ web' = NoWebRequest
  /\ UNCHANGED <<sessions, queries, links, locationCache, handlers, applications, call>>

(* --------------------------- status updates --------------------------- *)

\* the status values the dashboard offers
QueryStatuses == {"Pending", "In Progress", "Resolved", "Rejected"}

\* req.body.status of a status update: missing (""), one of the four, or
\* another text
StatusInputs == QueryStatuses \cup {"", "Closed"}

\* Query.findById(id): the position of the report, 0 for none
QueryFindById(store, id) == IF id \in DOMAIN store THEN id ELSE 0

\* the answer of a status update; the trace starts with the status asked for
StatusResult(endpoint, id, status, code, message, success, steps) ==
  WebResult(endpoint, << >>, <<Absent, Absent>>, code, message, 0, FALSE, FALSE,
            success, id, <<status>> \o steps)

\* exports.updateQueryStatus: the status is checked against the four values
\* before the report is looked up; the user's notification failing is
\* caught, the session lookup before it is not
updateQueryStatus(id, status, findOk, saveOk, sessionOk) ==
  LET at == QueryFindById(queries, id)
      result(code, message, success, steps) ==
        StatusResult("updateQueryStatus", id, status, code, message, success, steps)
  IN
  /\ UNCHANGED <<sessions, links, locationCache, handlers, applications, call>>
  /\ IF status \notin QueryStatuses
       THEN /\ web' = result(400, "Invalid status value", "false", <<"respond 400">>)
            /\ UNCHANGED queries
     ELSE IF ~findOk
       THEN /\ web' = result(500, "Internal server error", "false", <<"respond 500">>)
            /\ UNCHANGED queries
     ELSE IF at = 0
       THEN /\ web' = result(404, "Query not found", "false", <<"respond 404">>)
            /\ UNCHANGED queries
     ELSE IF ~saveOk
       THEN /\ web' = result(500, "Internal server error", "false", <<"respond 500">>)
            /\ UNCHANGED queries
     ELSE /\ queries' = [queries EXCEPT ![at].status = status]
          /\ web' = IF sessionOk
               THEN result(200, "", "true", <<"query.save", "respond 200">>)
               ELSE result(500, "Internal server error", "false",
                           <<"query.save", "respond 500">>)

\* the test on req.body.status in POST /reports/:id/resolve
resolveStatusAccepted(status) == status # ""

\* POST /reports/:id/resolve: a status is required, and a resolver's name
\* when the status is Resolved or Rejected; the resolution image is uploaded
\* before the save
ReportsResolve(id, status, hasResolverName, hasFile, findOk, uploadOk, saveOk) ==
  LET at == QueryFindById(queries, id)
      result(code, message, success, steps) ==
        StatusResult("/reports/:id/resolve", id, status, code, message, success, steps)
  IN
  /\ UNCHANGED <<sessions, links, locationCache, handlers, applications, call>>
  /\ IF ~resolveStatusAccepted(status)
       THEN /\ web' = result(400, "Status is required", "false", <<"respond 400">>)
            /\ UNCHANGED queries
     ELSE IF status \in {"Resolved", "Rejected"} /\ ~hasResolverName
       THEN /\ web' = result(400, "Your name is required", "false", <<"respond 400">>)
            /\ UNCHANGED queries
     ELSE IF ~findOk
       THEN /\ web' = result(500, "Error updating report status", "false",
                             <<"respond 500">>)
            /\ UNCHANGED queries
     ELSE IF at = 0
       THEN /\ web' = result(404, "Report not found", "false", <<"respond 404">>)
            /\ UNCHANGED queries
     ELSE IF (hasFile /\ ~uploadOk) \/ ~saveOk
       THEN /\ web' = result(500, "Error updating report status", "false",
                             <<"respond 500">>)
            /\ UNCHANGED queries
     ELSE /\ queries' = [queries EXCEPT ![at].status = status]
          /\ web' = result(200, "", "true", <<"query.save", "respond 200">>)

(* --------------------------- session reset ---------------------------- *)

\* the update document of Session.updateMany({}, { current_state:
\* 'LANGUAGE_SELECT' }) applied to one session
resetSessionDoc(doc) == [doc EXCEPT !.current_state = "LANGUAGE_SELECT"]

\* GET /reset-all-sessions
ResetAllSessions(ok) ==
  /\ IF ok
       THEN /\ sessions' = [i \in 1..Len(sessions) |-> resetSessionDoc(sessions[i])]
            /\ web' = WebResult("/reset-all-sessions", << >>, <<Absent, Absent>>, 200, "",
                                0, FALSE, FALSE, "", 0, <<"sessions.update", "respond 200">>)
       ELSE /\ UNCHANGED sessions
            /\ web' = WebResult("/reset-all-sessions", << >>, <<Absent, Absent>>, 500,
                                "Failed to reset sessions", 0, FALSE, FALSE, "", 0,
                                <<"respond 500">>)
  /\ UNCHANGED <<queries, links, locationCache, handlers, applications, call>>

(* -------------------------------- time -------------------------------- *)

\* usedAt is compared with nothing: its age is 0 or more than 0
OlderUse(usedAt) == IF usedAt = << >> THEN << >> ELSE <<1>>

OlderSession(doc) ==
  [doc EXCEPT !.last_interaction = Older(@, SessionAgeCap)]

\* an hour passes between two requests (a request is served within the
\* hour it arrived in): every stored session timestamp is an hour older,
\* and every link is past its lifetime
Tick ==
  /\ \A h \in Handlers : handlers[h].pc = "idle"
  /\ sessions' = [i \in 1..Len(sessions) |-> OlderSession(sessions[i])]
  /\ links' = [i \in 1..Len(links) |->
       [links[i] EXCEPT !.createdAt = LinkAgeCap, !.usedAt = OlderUse(@)]]
  /\ UNCHANGED <<queries, locationCache, handlers, web, applications, call>>

\* a second passes between two requests
TickSecond ==
  /\ links' = [i \in 1..Len(links) |->
       [links[i] EXCEPT !.createdAt = Older(@, LinkAgeCap), !.usedAt = OlderUse(@)]]
  /\ UNCHANGED <<sessions, queries, locationCache, handlers, web, applications, call>>

(* --------------------------- specifications --------------------------- *)

\* the phones any notification may try
PhonesInUse == UNION { PhonesTried(d) : d \in 1..Len(Divisions) }

\* The collections outlive the server.  The Session collection starts empty
\* or holds one session left by an earlier run, in any state.
StoredSessions ==
  { [NewSession(u) EXCEPT !.current_state = st, !.last_option = lo, !.user_name = nm] :
      u \in Users, st \in States, lo \in {NULL, <<"7">>},
      nm \in {NULL, <<"A","n","u">>} }

Init ==
  /\ sessions \in {<< >>} \cup { <<doc>> : doc \in StoredSessions }
  /\ queries = << >>
  /\ links = << >>
  /\ locationCache = << >>
  /\ handlers = [h \in Handlers |-> IdleHandler]
  /\ web = NoWebRequest
  /\ applications = << >>
  /\ call = NoCall

\* one step of the webhook handler h after getUserSession's findOne;
\* userMessage and (Latitude, Longitude) are the request's Body and location
WebhookStep(h, bodies, locations) ==
  \/ \E ok \in BOOLEAN : getUserSessionSave(h, ok)
  \/ \E userMessage \in bodies : WebhookDecide(h, userMessage)
  \/ \E userMessage \in bodies, ok \in BOOLEAN : WebhookNameCollection(h, userMessage, ok)
  \/ \E userMessage \in bodies, ok \in BOOLEAN : WebhookMenuReport(h, userMessage, ok)
  \/ \E userMessage \in bodies, ok \in BOOLEAN : WebhookSuggestionText(h, userMessage, ok)
  \/ \E userMessage \in bodies, ok \in BOOLEAN : WebhookJoin(h, userMessage, ok)
  \/ \E userMessage \in bodies, loc \in locations, dbOk \in BOOLEAN :
       WebhookLocation(h, userMessage, loc[1], loc[2], dbOk)
  \/ \E ok, sendOk \in BOOLEAN : updateUserSession(h, ok, sendOk)
  \/ WebhookDone(h)

AllIdle == \A h \in Handlers : handlers[h].pc = "idle"

\* The conversation: webhook requests handled one at a time, with every
\* message body and without locations.
Next ==
  \/ \E u \in Users, ok \in BOOLEAN : AllIdle /\ WebhookReceive("h1", u, ok)
  \/ WebhookStep("h1", Bodies, { <<Absent, Absent>> })
  \/ Tick

Spec == Init /\ [][Next]_vars

\* The report pipeline: the chat location step and the two web endpoints,
\* one request at a time.  The session awaits a location and a capture link
\* has been issued to the user; requests carry a location in a division
\* without officers, in one with an active officer, outside every division,
\* or none.
ReportLocations ==
  { <<Absent, Absent>>, <<Num(20), Num(80)>>, <<Num(80), Num(80)>>,
    <<Num(50), Num(50)>> }

WebUserIds == { << >> } \cup Users

ReportTypes == { <<"1">> }

\* link ids of requests: none, the issued one, one never issued
LinkIds == { 0, 1, 2 }

InitReport ==
  /\ sessions \in { << [NewSession(u) EXCEPT !.current_state = "AWAITING_LOCATION",
                                               !.user_name = <<"A","n","u">>] >> :
                      u \in Users }
  /\ links \in { << NewLink(1, u, <<"1">>) >> : u \in Users }
  /\ queries = << >>
  /\ locationCache = << >>
  /\ handlers = [h \in Handlers |-> IdleHandler]
  /\ web = NoWebRequest
  /\ applications = << >>
  /\ call = NoCall

\* the locations suggestions carry
SuggestionLocations == { <<Absent, Absent>>, <<Num(50), Num(50)>> }

\* the link update can only fail when the request names a link
LinkFaults(linkId) == IF linkId = 0 THEN { TRUE } ELSE BOOLEAN

NoRequest == AllIdle /\ web = NoWebRequest

NextReport ==
  \/ \E u \in Users, ok \in BOOLEAN : NoRequest /\ WebhookReceive("h1", u, ok)
  \/ \E ok \in BOOLEAN : getUserSessionSave("h1", ok)
  \/ WebhookDecide("h1", << >>)
  \/ \E loc \in ReportLocations, dbOk \in BOOLEAN :
       WebhookLocation("h1", << >>, loc[1], loc[2], dbOk)
  \/ \E ok, sendOk \in BOOLEAN : updateUserSession("h1", ok, sendOk)
  \/ WebhookDone("h1")
  \/ \E userId \in Users, reportType \in ReportTypes, loc \in ReportLocations,
        linkId \in LinkIds, hasFile, dbOk, sendOk \in BOOLEAN :
       \E linkOk \in LinkFaults(linkId) :
         /\ NoRequest
         /\ ApiReport(userId, reportType, loc[1], loc[2], linkId, hasFile, linkOk, dbOk, sendOk)
  \/ \E userId \in WebUserIds, reportType \in { << >> } \cup ReportTypes,
        loc \in ReportLocations, linkId \in LinkIds, hasFile \in BOOLEAN :
       /\ userId = << >> \/ reportType = << >>
       /\ NoRequest
       /\ ApiReport(userId, reportType, loc[1], loc[2], linkId, hasFile, TRUE, TRUE, TRUE)
  \/ \E userId \in Users, loc \in SuggestionLocations, linkId \in LinkIds,
        saveOk \in BOOLEAN :
       \E linkOk \in LinkFaults(linkId) :
         /\ NoRequest
         /\ ApiSuggestion(<<"A">>, userId, loc[1], loc[2], linkId, linkOk, saveOk)
  \/ \E description \in { << >>, <<"A">> }, userId \in WebUserIds,
        loc \in SuggestionLocations, linkId \in LinkIds :
       /\ description = << >> \/ userId = << >>
       /\ NoRequest
       /\ ApiSuggestion(description, userId, loc[1], loc[2], linkId, TRUE, TRUE)
  \/ WebDone

SpecReport == InitReport /\ [][NextReport]_vars

\* Capture links: a link has been issued to the user; it is validated and
\* consumed under every representation of the user id, and of another
\* user's, while the seconds pass.
UserIdForms ==
  { <<"911">>, <<"+", "911">>, <<"whatsapp:", "911">>, <<"whatsapp:", "+", "911">>,
    <<"whatsapp:", " ", "911">>, <<"922">> }

InitLinks ==
  /\ sessions = << >>
  /\ links \in { << NewLink(1, u, <<"1">>) >> : u \in Users }
  /\ queries = << >>
  /\ locationCache = << >>
  /\ handlers = [h \in Handlers |-> IdleHandler]
  /\ web = NoWebRequest
  /\ applications = << >>
  /\ call = NoCall

NextLinks ==
  \/ \E linkId \in LinkIds, userId \in { << >> } \cup UserIdForms, ok \in BOOLEAN :
       NoRequest /\ CheckLinkValidity(linkId, userId, ok)
  \/ \E linkId \in LinkIds \ {0}, ok \in BOOLEAN : NoRequest /\ Redirect(linkId, ok)
  \/ \E userId \in UserIdForms, linkId \in LinkIds :
       /\ NoRequest
       /\ ApiReport(userId, <<"1">>, Num(50), Num(50), linkId, FALSE, TRUE, TRUE, TRUE)
  \/ \E userId \in UserIdForms, linkId \in LinkIds :
       \E linkOk \in LinkFaults(linkId) :
         /\ NoRequest
         /\ ApiSuggestion(<<"A">>, userId, Absent, Absent, linkId, linkOk, FALSE)
  \/ NoRequest /\ TickSecond
  \/ WebDone

SpecLinks == InitLinks /\ [][NextLinks]_vars

\* Division resolution alone: coordinates on both sides of D1's edge at 40
\* that round to one cache key (36 and 44), coordinates inside D1, D2, D3 and
\* D4, and coordinates that are missing or no numbers.
ResolveLatitudes == { NotANumber, Num(36), Num(44), Num(80) }

ResolveLongitudes == { Absent, Num(20), Num(24), Num(36), Num(44), Num(80) }

InitResolve ==
  /\ sessions = << >>
  /\ links = << >>
  /\ queries = << >>
  /\ locationCache = << >>
  /\ handlers = [h \in Handlers |-> IdleHandler]
  /\ web = NoWebRequest
  /\ applications = << >>
  /\ call = NoCall

NextResolve ==
  \E latitude \in ResolveLatitudes, longitude \in ResolveLongitudes, dbOk \in BOOLEAN :
    Resolve(latitude, longitude, dbOk)

SpecResolve == InitResolve /\ [][NextResolve]_vars

\* Submissions: the join-team form through both of its handlers, and the
\* report and suggestion forms, with fields missing and malformed, from a
\* user who has a session and from one who has none.
JoinUserIds == { << >>, <<"whatsapp:", "+", "911">>, <<"922">> }

FullNames == { << >>, <<"A", "n", "u">>, <<"A", "1">> }

\* no date; in the future; 18 years less a day, less a month, to the day;
\* and 35 years
BirthDates ==
  { Absent, <<2026, 1, 1>>, <<2007, 6, 16>>, <<2007, 7, 1>>, <<2007, 6, 15>>,
    <<1990, 1, 1>> }

CourtCases == { <<"true", << >> >>, <<"true", <<"A">> >>, <<"false", << >> >>,
                <<"on", <<"A">> >> }

Faults == { "none", "find", "upload", "save", "send" }

InitJoin ==
  /\ sessions \in { <<[NewSession(u) EXCEPT !.current_state = "JOIN_TEAM_LINK_SENT",
                                            !.user_name = name]>> :
                      u \in Users, name \in { NULL, <<"A", "n", "u">> } }
  /\ queries = << >>
  /\ links \in { << NewLink(1, u, <<"1">>) >> : u \in Users }
  /\ locationCache = << >>
  /\ handlers = [h \in Handlers |-> IdleHandler]
  /\ web = NoWebRequest
  /\ applications = << >>
  /\ call = NoCall

NextJoin ==
  \/ \E userId \in JoinUserIds, filled \in BOOLEAN, fullName \in FullNames :
       \E dateOfBirth \in BirthDates, hasFile \in BOOLEAN, c \in CourtCases :
         /\ NoRequest
         /\ ApiJoinTeam(userId, filled, fullName, dateOfBirth, hasFile, c[1], c[2], "none")
  \/ \E faults \in Faults \ { "none" }, c \in CourtCases :
       /\ NoRequest
       /\ ApiJoinTeam(<<"whatsapp:", "+", "911">>, TRUE, <<"A", "n", "u">>, <<1990, 1, 1>>,
                      TRUE, c[1], c[2], faults)
  \/ \E userId \in JoinUserIds, filled \in BOOLEAN, fullName \in FullNames :
       \E hasFile \in BOOLEAN, c \in CourtCases, faults \in Faults :
         /\ NoRequest
         /\ submitApplication(userId, filled, fullName, hasFile, c[1], c[2], faults)
  \/ \E userId \in WebUserIds, reportType \in { << >>, <<"1">> }, linkId \in LinkIds :
       /\ NoRequest
       /\ ApiReport(userId, reportType, Num(20), Num(80), linkId, FALSE, TRUE, TRUE, TRUE)
  \/ \E description \in { << >>, <<"A">> }, userId \in WebUserIds, linkId \in LinkIds :
       /\ NoRequest
       /\ ApiSuggestion(description, userId, Absent, Absent, linkId, TRUE, TRUE)
  \/ WebDone

SpecJoin == InitJoin /\ [][NextJoin]_vars

\* The polygon test alone: the square of D1, the triangle of D3, an
\* L-shaped ring and a list too short to be a ring, against the points of a
\* grid that has points inside, outside, on edges and on vertices.
Rings ==
  { Divisions[1].ring, Divisions[3].ring,
    << <<0, 0>>, <<40, 0>>, <<40, 20>>, <<20, 20>>, <<20, 40>>, <<0, 40>> >>,
    << <<0, 0>>, <<40, 40>> >> }

GridPoints ==
  { <<x * 10, y * 10>> : x \in 0..5, y \in {0, 1, 2, 3, 4, 6, 8, 10} }

InitPolygon ==
  /\ sessions = << >>
  /\ queries = << >>
  /\ links = << >>
  /\ locationCache = << >>
  /\ handlers = [h \in Handlers |-> IdleHandler]
  /\ web = NoWebRequest
  /\ applications = << >>
  /\ call = NoCall

NextPolygon ==
  \/ \E point \in GridPoints, polygon \in Rings :
       \E k \in 0..(Len(polygon) - 1) : PointInPolygonCall(point, polygon, k)
  \/ PointInPolygonReturn

SpecPolygon == InitPolygon /\ [][NextPolygon]_vars

\* The chat location step alone, over every location and with time passing.
NextChatLocation ==
  \/ \E u \in Users, ok \in BOOLEAN : AllIdle /\ WebhookReceive("h1", u, ok)
  \/ \E ok \in BOOLEAN : getUserSessionSave("h1", ok)
  \/ WebhookDecide("h1", << >>)
  \/ \E loc \in Locations, dbOk \in BOOLEAN :
       WebhookLocation("h1", << >>, loc[1], loc[2], dbOk)
  \/ \E ok, sendOk \in BOOLEAN : updateUserSession("h1", ok, sendOk)
  \/ WebhookDone("h1")
  \/ Tick

SpecChatLocation == InitReport /\ [][NextChatLocation]_vars

\* The officer fan-out of both paths: chat location messages and web
\* reports at locations inside divisions with two selected officers (D1,
\* D5) and with one (D4), one request at a time.
FanOutLocations == { <<Num(20), Num(20)>>, <<Num(20), Num(140)>>, <<Num(80), Num(80)>> }

NextFanOut ==
  \/ \E u \in Users, ok \in BOOLEAN : NoRequest /\ WebhookReceive("h1", u, ok)
  \/ \E ok \in BOOLEAN : getUserSessionSave("h1", ok)
  \/ WebhookDecide("h1", << >>)
  \/ \E loc \in FanOutLocations, dbOk \in BOOLEAN :
       WebhookLocation("h1", << >>, loc[1], loc[2], dbOk)
  \/ \E ok, sendOk \in BOOLEAN : updateUserSession("h1", ok, sendOk)
  \/ WebhookDone("h1")
  \/ \E userId \in Users, reportType \in ReportTypes, loc \in FanOutLocations,
        hasFile, dbOk, sendOk \in BOOLEAN :
       /\ NoRequest
       /\ ApiReport(userId, reportType, loc[1], loc[2], 0, hasFile, TRUE, dbOk, sendOk)
  \/ WebDone

SpecFanOut == InitReport /\ [][NextFanOut]_vars

\* The main menu alone: a named user's session in MENU, every menu option
\* and an invalid one, one request at a time.
MenuMessages ==
  { <<"1">>, <<"2">>, <<"3">>, <<"4">>, <<"5">>, <<"6">>, <<"7">>, <<"8">>, <<"9">> }

InitMenu ==
  /\ sessions \in { << [NewSession(u) EXCEPT !.current_state = "MENU",
                                               !.user_name = <<"A","n","u">>] >> :
                      u \in Users }
  /\ queries = << >>
  /\ links = << >>
  /\ locationCache = << >>
  /\ handlers = [h \in Handlers |-> IdleHandler]
  /\ web = NoWebRequest
  /\ applications = << >>
  /\ call = NoCall

NextMenu ==
  \/ \E u \in Users, ok \in BOOLEAN : AllIdle /\ WebhookReceive("h1", u, ok)
  \/ \E ok \in BOOLEAN : getUserSessionSave("h1", ok)
  \/ \E userMessage \in MenuMessages : WebhookDecide("h1", userMessage)
  \/ \E userMessage \in MenuMessages, ok \in BOOLEAN :
       WebhookMenuReport("h1", userMessage, ok)
  \/ \E ok, sendOk \in BOOLEAN : updateUserSession("h1", ok, sendOk)
  \/ WebhookDone("h1")

SpecMenu == InitMenu /\ [][NextMenu]_vars

\* The location step from a session that holds a pending report type:
\* events without a location, inside a division without officers, inside
\* one with an officer, and outside every division.
InitAwaitingLocation ==
  /\ sessions \in { << [NewSession(u) EXCEPT !.current_state = "AWAITING_LOCATION",
                                               !.last_option = lo,
                                               !.user_name = <<"A","n","u">>] >> :
                      u \in Users, lo \in { <<"1">>, <<"7">> } }
  /\ queries = << >>
  /\ links = << >>
  /\ locationCache = << >>
  /\ handlers = [h \in Handlers |-> IdleHandler]
  /\ web = NoWebRequest
  /\ applications = << >>
  /\ call = NoCall

NextAwaitingLocation ==
  \/ \E u \in Users, ok \in BOOLEAN : AllIdle /\ WebhookReceive("h1", u, ok)
  \/ \E ok \in BOOLEAN : getUserSessionSave("h1", ok)
  \/ WebhookDecide("h1", << >>)
  \/ \E loc \in ReportLocations, dbOk \in BOOLEAN :
       WebhookLocation("h1", << >>, loc[1], loc[2], dbOk)
  \/ \E ok, sendOk \in BOOLEAN : updateUserSession("h1", ok, sendOk)
  \/ WebhookDone("h1")

SpecAwaitingLocation == InitAwaitingLocation /\ [][NextAwaitingLocation]_vars

\* The conversation with a database and a transport that work, from a new
\* user or from a session left in any state, with every command and option
\* and without locations.  Towards MENU the user can send "1" in
\* LANGUAGE_SELECT and in NAME_COLLECTION (as the name) and "Menu" in every
\* other state.
LiveBodies == { <<"r","e","s","e","t">>, <<"M","e","n","u">>, <<"1">>, <<"8">> }

TowardsMenu(currentState) ==
  IF currentState \in {"LANGUAGE_SELECT", "NAME_COLLECTION"}
    THEN <<"1">> ELSE <<"M","e","n","u">>

\* the branch of handler h for userMessage
Transition(h, userMessage) ==
  \/ WebhookDecide(h, userMessage)
  \/ WebhookNameCollection(h, userMessage, TRUE)
  \/ WebhookMenuReport(h, userMessage, TRUE)
  \/ WebhookSuggestionText(h, userMessage, TRUE)
  \/ WebhookJoin(h, userMessage, TRUE)
  \/ WebhookLocation(h, userMessage, Absent, Absent, TRUE)

\* the message towards MENU arrives while the session is in currentState
TowardsMenuIn(currentState) ==
  /\ handlers["h1"].session.current_state = currentState
  /\ Transition("h1", TowardsMenu(currentState))

NextLive ==
  \/ \E u \in Users : AllIdle /\ WebhookReceive("h1", u, TRUE)
  \/ getUserSessionSave("h1", TRUE)
  \/ \E userMessage \in LiveBodies : Transition("h1", userMessage)
  \/ updateUserSession("h1", TRUE, TRUE)
  \/ WebhookDone("h1")

\* Every request is handled to its end, the user keeps writing, and in each
\* state the message towards MENU is sent again and again.
FairLive ==
  /\ WF_vars(\E u \in Users : AllIdle /\ WebhookReceive("h1", u, TRUE))
  /\ WF_vars(getUserSessionSave("h1", TRUE))
  /\ WF_vars(updateUserSession("h1", TRUE, TRUE))
  /\ WF_vars(WebhookDone("h1"))
  /\ \A currentState \in States : SF_vars(TowardsMenuIn(currentState))

SpecLive == Init /\ [][NextLive]_vars /\ FairLive

\* Two webhook requests of one user in flight at once, from the first
\* message on.
InitConcurrent ==
  /\ sessions = << >>
  /\ queries = << >>
  /\ links = << >>
  /\ locationCache = << >>
  /\ handlers = [h \in Handlers |-> IdleHandler]
  /\ web = NoWebRequest
  /\ applications = << >>
  /\ call = NoCall

NextConcurrent ==
  \E h \in Handlers :
    \/ \E u \in Users, ok \in BOOLEAN : WebhookReceive(h, u, ok)
    \/ \E ok \in BOOLEAN : getUserSessionSave(h, ok)
    \/ WebhookDecide(h, <<"1">>)
    \/ \E ok \in BOOLEAN : WebhookNameCollection(h, <<"1">>, ok)
    \/ \E ok \in BOOLEAN : WebhookMenuReport(h, <<"1">>, ok)
    \/ \E ok, sendOk \in BOOLEAN : updateUserSession(h, ok, sendOk)
    \/ WebhookDone(h)

SpecConcurrent == InitConcurrent /\ [][NextConcurrent]_vars

\* Status updates: reports are submitted on the web and their status is
\* changed through both status endpoints, one request at a time.
QueryIds == 1 .. (MaxQueries + 1)

NextStatus ==
  \/ \E userId \in Users, hasFile \in BOOLEAN :
       /\ NoRequest
       /\ ApiReport(userId, <<"1">>, Num(20), Num(20), 0, hasFile, TRUE, TRUE, TRUE)
  \/ \E id \in QueryIds, status \in StatusInputs, findOk, saveOk, sessionOk \in BOOLEAN :
       NoRequest /\ updateQueryStatus(id, status, findOk, saveOk, sessionOk)
  \/ \E id \in QueryIds, status \in StatusInputs : \E hasResolverName, hasFile, findOk, uploadOk, saveOk \in BOOLEAN :
       NoRequest /\ ReportsResolve(id, status, hasResolverName, hasFile, findOk, uploadOk, saveOk)
  \/ WebDone

SpecStatus == InitConcurrent /\ [][NextStatus]_vars

\* The division loop alone, over every division list of up to three
\* entries drawn from two overlapping squares, a ring of two vertices and a
\* division without boundary; the points lie in the first square only, in
\* both, in the second only, and in neither.
ScanShapes ==
  { << <<0, 0>>, <<40, 0>>, <<40, 40>>, <<0, 40>> >>,
    << <<20, 20>>, <<60, 20>>, <<60, 60>>, <<20, 60>> >>,
    << <<0, 0>>, <<40, 40>> >>,
    NULL }

DivisionLists ==
  UNION { [1..n -> { [ring |-> r] : r \in ScanShapes }] : n \in 1..3 }

ScanPoints == { <<10, 10>>, <<30, 30>>, <<50, 50>>, <<70, 70>> }

NextScan ==
  \/ \E divisions \in DivisionLists, p \in ScanPoints : ScanCall(divisions, p[1], p[2])
  \/ PointInPolygonReturn

SpecScan == InitConcurrent /\ [][NextScan]_vars

\* The conversation from an empty Session collection: webhook requests with
\* every message body handled one at a time, the hours passing between
\* them, and /reset-all-sessions.
NextSessions ==
  \/ \E u \in Users, ok \in BOOLEAN : NoRequest /\ WebhookReceive("h1", u, ok)
  \/ \E ok \in BOOLEAN : getUserSessionSave("h1", ok)
  \/ \E userMessage \in Bodies : WebhookDecide("h1", userMessage)
  \/ \E userMessage \in Bodies, ok \in BOOLEAN : WebhookNameCollection("h1", userMessage, ok)
  \/ \E userMessage \in Bodies, ok \in BOOLEAN : WebhookMenuReport("h1", userMessage, ok)
  \/ \E ok, sendOk \in BOOLEAN : updateUserSession("h1", ok, sendOk)
  \/ WebhookDone("h1")
  \/ NoRequest /\ Tick
  \/ \E ok \in BOOLEAN : NoRequest /\ ResetAllSessions(ok)
  \/ WebDone

SpecSessions == InitConcurrent /\ [][NextSessions]_vars

(* ------------------------------- claims ------------------------------- *)

\* the handlers whose branch has decided
HasDecided(hd) == hd.pc \in {"updateUserSession", "done"} /\ hd.branch # ""

IsCommand(userMessage, command) ==
  userMessage # << >> /\ toLowerCase(userMessage) = command

\* C3: the webhook always responds with status 200, whatever failed inside
\* the handler.
C3_WebhookAlways200 ==
  \A h \in Handlers : handlers[h].pc = "done" => handlers[h].status = 200

\* C6: from every state a message that is "reset" in any case takes the
\* reset branch before any state handling: the new state is
\* LANGUAGE_SELECT, the last option is cleared, the stored name is not
\* touched, and once the request has answered 200 the stored session is in
\* LANGUAGE_SELECT without last option.
C6_ResetOverrides ==
  \A h \in Handlers :
    LET hd == handlers[h] IN
    (HasDecided(hd) /\ IsCommand(hd.Body, RESET)) =>
      /\ hd.branch = "reset"
      /\ hd.newState = "LANGUAGE_SELECT"
      /\ hd.newLastOption = NULL
      /\ hd.session.user_name = hd.found.user_name
      /\ hd.status = 200 =>
           /\ sessions[hd.id].current_state = "LANGUAGE_SELECT"
           /\ sessions[hd.id].last_option = NULL

\* a mixed-case "reset" sent in NAME_COLLECTION has been answered
C6_Witness ==
  \E h \in Handlers :
    LET hd == handlers[h] IN
    /\ hd.pc = "done" /\ hd.status = 200
    /\ hd.Body = <<"R","e","S","E","T">>
    /\ hd.id # 0 /\ hd.found.current_state = "NAME_COLLECTION"
    /\ hd.found.last_interaction <= conversationTimeout
    /\ sessions[hd.id].current_state = "LANGUAGE_SELECT"

\* C7: from any state a message that is "menu" in any case moves the
\* session to MENU and emits the menu, in particular from LANGUAGE_SELECT
\* and NAME_COLLECTION.
C7_MenuFromAnyState ==
  \A h \in Handlers :
    LET hd == handlers[h] IN
    (HasDecided(hd) /\ IsCommand(hd.Body, MENU)) =>
      /\ hd.newState = "MENU"
      /\ hd.responseMessage = "MENU"

\* C8: in LANGUAGE_SELECT "1" selects English and "2" Marathi, and the next
\* state is NAME_COLLECTION without a stored name and MENU with one; any
\* other message that is not "reset" leaves state and language as they
\* were.  Once the request has answered 200 the stored session shows it.
C8_Expected(hd) ==
  IF hd.Body \in { <<"1">>, <<"2">> }
    THEN [ language |-> IF hd.Body = <<"1">> THEN "en" ELSE "mr",
           state |-> IF Truthy(hd.found.user_name) THEN "MENU" ELSE "NAME_COLLECTION" ]
    ELSE [ language |-> hd.found.language, state |-> "LANGUAGE_SELECT" ]

C8_LanguageSelect ==
  \A h \in Handlers :
    LET hd == handlers[h] IN
    (HasDecided(hd) /\ hd.branch = "LANGUAGE_SELECT") =>
      /\ hd.newState = C8_Expected(hd).state
      /\ hd.newLanguage = C8_Expected(hd).language
      /\ hd.status = 200 =>
           /\ sessions[hd.id].current_state = C8_Expected(hd).state
           /\ sessions[hd.id].language = C8_Expected(hd).language

\* "2" sent in LANGUAGE_SELECT by a user with a stored name has been
\* answered: Marathi, MENU
C8_Witness ==
  \E h \in Handlers :
    LET hd == handlers[h] IN
    /\ hd.pc = "done" /\ hd.status = 200
    /\ hd.branch = "LANGUAGE_SELECT" /\ hd.Body = <<"2">>
    /\ Truthy(hd.found.user_name)
    /\ sessions[hd.id].current_state = "MENU"
    /\ sessions[hd.id].language = "mr"

C1_StoredOnlyNotified ==
  \A i \in 1..Len(queries) :
    (queries[i].location # NULL
       /\ queries[i].query_type \notin {"Suggestion", "Join Request"}) =>
      /\ queries[i].division # 0
      /\ queries[i].divisionNotified
      /\ queries[i].divisionOfficersNotified # << >>

\* C2: a submission that names a link of the user that is already used is
\* answered AlreadyUsed and does not consume the link again.
C2_ConsumedOnce ==
  (web.endpoint \in {"/api/report", "/api/suggestion"}
     /\ web.linkFound /\ web.linkUsedBefore) =>
    /\ web.error = "AlreadyUsed"
    /\ web.queryId = 0

\* the coordinate lies in no division
Outside(location) ==
  findDivisionForLocation(location[1], location[2], << >>, TRUE).division = 0

\* the step of handler h that leaves the AWAITING_LOCATION branch
LocationStep(h) ==
  /\ handlers[h].pc = "transition"
  /\ handlers'[h].pc # "transition"
  /\ handlers'[h].branch = "AWAITING_LOCATION"

\* C4: when the chat location step resolved a division and notified no
\* officer, the user is sent NOTIFICATION_FAILED, no report is stored, the
\* new state is MENU, and the stored session is in MENU once the request
\* has answered 200.
C4_Step ==
  \A h \in Handlers :
    /\ (LocationStep(h) /\ handlers'[h].division # 0
          /\ handlers'[h].notifiedOfficers = << >>) =>
         /\ handlers'[h].pc = "updateUserSession"
         /\ handlers'[h].responseMessage = "NOTIFICATION_FAILED"
         /\ handlers'[h].newState = "MENU"
         /\ handlers'[h].queryId = 0
         /\ queries' = queries
    /\ (handlers[h].pc = "updateUserSession"
          /\ handlers[h].responseMessage = "NOTIFICATION_FAILED"
          /\ handlers'[h].status = 200) =>
         sessions'[handlers[h].id].current_state = "MENU"

C4_NotificationFailed == [][C4_Step]_vars

\* a location in a division with an active officer whose send failed has
\* been answered NOTIFICATION_FAILED, and nothing is stored
C4_Witness ==
  \E h \in Handlers :
    LET hd == handlers[h] IN
    /\ hd.pc = "done" /\ hd.status = 200
    /\ hd.responseMessage = "NOTIFICATION_FAILED"
    /\ hd.division # 0
    /\ officersToNotify(hd.division) # << >>
    /\ hd.notifiedOfficers = << >>
    /\ queries = << >>
    /\ sessions[hd.id].current_state = "MENU"

\* C5: a coordinate in no division is rejected and nothing is stored: the
\* chat location step answers LOCATION_OUTSIDE_JURISDICTION and goes to
\* MENU; /api/report, with and without image, stores nothing and answers
\* 400 "Location outside jurisdiction", or 500 when telling the user threw.
C5_Step ==
  /\ \A h \in Handlers :
       (LocationStep(h)
          /\ handlers'[h].Latitude # Absent /\ handlers'[h].Longitude # Absent
          /\ Outside(<<handlers'[h].Latitude, handlers'[h].Longitude>>)) =>
         /\ handlers'[h].pc = "updateUserSession"
         /\ handlers'[h].responseMessage = "LOCATION_OUTSIDE_JURISDICTION"
         /\ handlers'[h].newState = "MENU"
         /\ queries' = queries
  /\ (web = NoWebRequest /\ web'.endpoint = "/api/report"
        /\ web'.error # "Missing required fields" /\ Outside(web'.location)) =>
       /\ queries' = queries
       /\ web'.queryId = 0
       /\ web'.success = ""
       /\ web'.status \in {400, 500}
       /\ web'.status = 400 => web'.error = "Location outside jurisdiction"

C5_OutsideRejected == [][C5_Step]_vars

\* /api/report has rejected a coordinate outside every division while the
\* cache knows a division, and nothing is stored
C5_Witness ==
  /\ web.endpoint = "/api/report"
  /\ web.location = <<Num(50), Num(50)>>
  /\ web.status = 400 /\ web.error = "Location outside jurisdiction"
  /\ \E key \in DOMAIN locationCache : locationCache[key][1] = "division"
  /\ queries = << >>

\* C10: the Session collection holds at most one document per user id.
C10_OneSessionPerUser ==
  \A i, j \in 1..Len(sessions) :
    sessions[i].user_id = sessions[j].user_id => i = j

\* two requests of a user without session both found none; one has
\* inserted the session and the other's insert has failed
C10_Witness ==
  \E h, g \in Handlers :
    /\ h # g
    /\ handlers[h].From = handlers[g].From
    /\ handlers[h].found = NoDoc /\ handlers[g].found = NoDoc
    /\ handlers[h].pc = "transition" /\ handlers[h].id # 0
    /\ handlers[g].pc = "done" /\ handlers[g].status = 500 /\ handlers[g].id = 0
    /\ handlers[g].trace = <<"session.findOne", "respond 500">>
    /\ Len(sessions) = 1

(* ------------------------------ capture links ------------------------- *)

LinkEndpoints == { "/api/check-link-validity", "/r/:linkId" }

\* a validation endpoint has answered about a link, without a server error
Validated == web.endpoint \in LinkEndpoints /\ web.status \notin {400, 500}

\* the outcome the endpoint reported
LinkVerdict ==
  IF web.status = 404 THEN "NotFound"
  ELSE IF web.error \in { "This reporting link has already been used",
                          "Report link has already been used." } THEN "AlreadyUsed"
  ELSE IF web.error \in { "This reporting link has expired",
                          "Report link has expired." } THEN "Expired"
  ELSE IF web.status \in {200, 302} THEN "Valid"
  ELSE "Error"

\* the age in seconds of the link the request named
ValidatedAge == links[LinkByIdFrom(links, web.linkId, 1)].createdAt

\* C11: a link is validated by existence, then by the used flag, then by
\* age, at the validity-check endpoint and at the /r/:linkId redirect: a
\* missing link reports NotFound, and a used link reports AlreadyUsed
\* whatever its age.
C11_ValidationOrder ==
  Validated =>
    /\ ~web.linkFound => LinkVerdict = "NotFound"
    /\ web.linkFound /\ web.linkUsedBefore => LinkVerdict = "AlreadyUsed"

\* C12: an unused link reports Valid while its age is at most 5 minutes
\* (4:59 and 5:00 included) and Expired once it is more (5:01 included).
C12_AgeBoundary ==
  Validated /\ web.linkFound /\ ~web.linkUsedBefore =>
    LinkVerdict = (IF ValidatedAge <= 5 * 60 THEN "Valid" ELSE "Expired")

\* an unused link was validated at exactly 5:00 and found valid
C12_Witness ==
  /\ web.endpoint = "/api/check-link-validity"
  /\ web.linkFound /\ ~web.linkUsedBefore
  /\ ValidatedAge = 5 * 60
  /\ LinkVerdict = "Valid"

\* an unused link was validated at 5:01 and found expired
C12_WitnessExpired ==
  /\ web.endpoint = "/api/check-link-validity"
  /\ web.linkFound /\ ~web.linkUsedBefore
  /\ ValidatedAge = 5 * 60 + 1
  /\ LinkVerdict = "Expired"

\* C13: once a link is used its record is not written again: no later
\* submission gives it a newer usedAt or clears used, and a suggestion
\* naming a used link is answered 202.
C13_UsedNeverMutated ==
  [][ /\ \A i \in 1..Len(links) :
           links[i].used =>
             /\ links'[i].used
             /\ links[i].usedAt # <<0>> => links'[i].usedAt # <<0>>
      /\ web = NoWebRequest /\ web'.endpoint = "/api/suggestion"
           /\ web'.linkUsedBefore => web'.status = 202
    ]_vars

\* the representations of the user id the link was issued to
OwnerForms == UserIdForms \ { <<"922">> }

\* C18: validation and consumption find the link under every representation
\* of its user's id (digits, with "+", with "whatsapp:", with both) and under
\* no other user's: validation reports what the link's state says, and
\* consumption marks the link used.
C18_SameOutcomeForEveryForm ==
  LET at == LinkByIdFrom(links, web.linkId, 1) IN
  (/\ web.endpoint \in { "/api/check-link-validity", "/api/report", "/api/suggestion" }
   /\ web.status # 500 /\ web.userId # << >>) =>
    /\ web.linkFound = (at # 0 /\ web.userId \in OwnerForms)
    /\ (web.endpoint = "/api/check-link-validity" /\ web.linkFound) =>
         LinkVerdict = (IF web.linkUsedBefore THEN "AlreadyUsed"
                        ELSE IF ValidatedAge > 5 * 60 THEN "Expired"
                        ELSE "Valid")
    /\ (web.endpoint # "/api/check-link-validity" /\ web.linkFound) =>
         links[at].used /\ links[at].usedAt = <<0>>

\* the link has been found valid under the id with the scheme and no "+"
C18_Witness ==
  /\ web.endpoint = "/api/check-link-validity"
  /\ web.userId = <<"whatsapp:", "911">>
  /\ web.linkFound /\ web.status = 200

\* the link has been consumed under the id with a leading "+"
C18_WitnessConsumed ==
  /\ web.endpoint = "/api/report"
  /\ web.userId = <<"+", "911">>
  /\ web.linkFound /\ ~web.linkUsedBefore
  /\ links[1].used

(* --------------------------- division resolution ---------------------- *)

Resolved == call.fn = "findDivisionForLocation"

C14_WitnessDivision ==
  /\ Resolved /\ call.cached = <<"division", 3>>
  /\ call.division = 3 /\ ~call.scanned

\* C15: an exception while resolving is swallowed: findDivisionForLocation
\* does not throw, and when the Division collection throws it returns None.
C15_ExceptionSwallowed ==
  Resolved => /\ ~call.thrown
              /\ ~call.dbOk => call.division = 0

\* the fetch of a cached division has thrown and the call returned None
C15_Witness ==
  /\ Resolved /\ ~call.dbOk
  /\ call.cached # NULL /\ DivisionOfEntry(call.cached) # 0
  /\ call.division = 0 /\ ~call.thrown

\* the read of the division list has thrown and the call returned None
C15_WitnessFind ==
  /\ Resolved /\ ~call.dbOk
  /\ IsNum(call.latitude) /\ IsNum(call.longitude) /\ call.cached = NULL
  /\ call.division = 0 /\ ~call.thrown /\ ~call.scanned

\* Where a point lies against a convex ring (every ring of Divisions is
\* convex), by the side of each edge the point is on: the cross product of
\* the edge and the vector from its start to the point.
Side(a, b, p) == (b[1] - a[1]) * (p[2] - a[2]) - (b[2] - a[2]) * (p[1] - a[1])

Sides(p, ring) ==
  { Side(ring[i], ring[(i % Len(ring)) + 1], p) : i \in 1..Len(ring) }

Between(u, v, w) == (u <= w /\ w <= v) \/ (v <= w /\ w <= u)

OnBoundary(p, ring) ==
  \E i \in 1..Len(ring) :
    LET a == ring[i]
        b == ring[(i % Len(ring)) + 1]
    IN  Side(a, b, p) = 0 /\ Between(a[1], b[1], p[1]) /\ Between(a[2], b[2], p[2])

StrictlyInside(p, ring) ==
  (\A c \in Sides(p, ring) : c > 0) \/ (\A c \in Sides(p, ring) : c < 0)

StrictlyOutside(p, ring) == ~StrictlyInside(p, ring) /\ ~OnBoundary(p, ring)

ConvexRings ==
  \A d \in 1..Len(Divisions) :
    LET ring == Divisions[d].ring
        turns == { Side(ring[i], ring[(i % Len(ring)) + 1],
                        ring[((i + 1) % Len(ring)) + 1]) : i \in 1..Len(ring) }
    IN  (\A c \in turns : c > 0) \/ (\A c \in turns : c < 0)

\* the point [lng, lat] of the call, and what the rings say about it
CallPoint == <<call.longitude[2], call.latitude[2]>>

PointResolved == Resolved /\ IsNum(call.latitude) /\ IsNum(call.longitude)

\* the division the point should resolve to: the one whose ring it is
\* strictly inside when it is strictly outside the others' (0 when it is
\* strictly outside them all); no verdict (-1) for any other point
Expected ==
  LET inside == { d \in 1..Len(Divisions) : StrictlyInside(CallPoint, Divisions[d].ring) }
      outside == { d \in 1..Len(Divisions) : StrictlyOutside(CallPoint, Divisions[d].ring) }
  IN  IF inside \cup outside # 1..Len(Divisions) \/ Cardinality(inside) > 1 THEN -1
      ELSE IF inside = {} THEN 0
      ELSE CHOOSE d \in inside : TRUE

\* C19 as stated: a point strictly inside the ring of one division and of
\* no other resolves to that division, and a point strictly outside every
\* ring resolves to None (here: whenever the Division collection answers).
C19_ResolvesByRing ==
  (PointResolved /\ call.dbOk /\ Expected # -1) => call.division = Expected

\* C19 amended: so it is for every call that reads the division list; a
\* call answered from the cache returns what the cache holds under the
\* point's 6-decimal key, whichever side of a ring the point is on.
C19_ScanResolvesByRing ==
  /\ ConvexRings
  /\ (PointResolved /\ call.scanned /\ Expected # -1) => call.division = Expected
  /\ (PointResolved /\ call.cached # NULL /\ call.dbOk) =>
       call.division = DivisionOfEntry(call.cached)

\* a point strictly inside the triangle of D3 has been resolved to D3 by a
\* scan
C19_Witness ==
  /\ PointResolved /\ call.scanned
  /\ CallPoint = <<20, 80>>
  /\ StrictlyInside(CallPoint, Divisions[3].ring)
  /\ Expected = 3 /\ call.division = 3

\* a point strictly outside every ring has been resolved to None by a scan
C19_WitnessOutside ==
  /\ PointResolved /\ call.scanned
  /\ Expected = 0 /\ call.division = 0

(* ------------------------- chat location reports ---------------------- *)

\* the phones of the officers selected in the division whose send succeeded,
\* in the officers' order; `reached` are the phones a send reaches
SucceededPhones(division, reached) ==
  LET selected == officersToNotify(division)
      phones == [i \in 1..Len(selected) |-> selected[i].phone]
      Succeeded(phone) == phone # NoPhone /\ phone \in reached
  IN  SelectSeq(phones, Succeeded)

\* C16: a report persisted by the chat location flow has divisionNotified
\* true and, in divisionOfficersNotified, exactly one entry per officer whose
\* send succeeded: at least one, and at most two.
C16_OneEntryPerNotifiedOfficer ==
  /\ \A h \in Handlers :
       LET hd == handlers[h] IN
       (hd.queryId # 0 /\ hd.division # 0) =>
         /\ queries[hd.queryId].via = "webhook"
         /\ queries[hd.queryId].division = hd.division
         /\ queries[hd.queryId].divisionOfficersNotified =
              SucceededPhones(hd.division, hd.reached)
  /\ \A i \in 1..Len(queries) :
       (queries[i].via = "webhook" /\ queries[i].location # NULL) =>
         /\ queries[i].divisionNotified
         /\ Len(queries[i].divisionOfficersNotified) \in {1, 2}

\* a report in D5, whose three active officers all have a phone, is stored
\* with the two entries of the two officers selected, both reached
C16_Witness ==
  \E h \in Handlers :
    LET hd == handlers[h] IN
    /\ hd.queryId # 0 /\ hd.division = 5
    /\ hd.reached = {"p9", "p10"}
    /\ queries[hd.queryId].divisionNotified
    /\ queries[hd.queryId].divisionOfficersNotified = <<"p9", "p10">>

\* a report in D4, whose one active officer was reached, is stored with one
\* entry
C16_WitnessOne ==
  \E h \in Handlers :
    LET hd == handlers[h] IN
    /\ hd.queryId # 0 /\ hd.division = 4
    /\ queries[hd.queryId].divisionNotified
    /\ queries[hd.queryId].divisionOfficersNotified = <<"p8">>

(* ------------------------------ validation ---------------------------- *)

ValidationErrors ==
  { "Missing required fields",
    "All required fields must be filled",
    "Name should only contain letters and basic characters",
    "Date of birth cannot be in the future",
    "Applicant must be at least 18 years old",
    "Aadhar document is required",
    "Court case description is required when \"Has court case\" is selected" }

\* C17: a request rejected with a 400 validation error has had no side
\* effect: before the 400 nothing was stored, uploaded, marked used or sent,
\* at /api/report, /api/suggestion and both join-team handlers.
C17_RejectedWithoutSideEffects ==
  [][ (web = NoWebRequest /\ web'.status = 400 /\ web'.error \in ValidationErrors) =>
        /\ web'.trace = <<"respond 400">>
        /\ UNCHANGED <<sessions, queries, links, applications>>
    ]_vars

(* ------------------------------ polygon test -------------------------- *)

\* C20: for a point not on the ring's boundary, isPointInPolygon answers the
\* same for the ring and for every cyclic rotation of its vertex list.
C20_RotationInvariant ==
  (call.fn = "isPointInPolygon" /\ ~OnBoundary(call.point, call.polygon)) =>
    call.rotated = call.inside

\* a point in the L-shaped ring, away from its boundary, is inside the ring
\* as stored and as rotated by two vertices
C20_Witness ==
  /\ call.fn = "isPointInPolygon"
  /\ Len(call.polygon) = 6 /\ call.rotation = 2
  /\ call.point = <<10, 30>>
  /\ ~OnBoundary(call.point, call.polygon)
  /\ call.inside /\ call.rotated

\* a point in the notch of the L-shaped ring is outside the ring as stored
\* and as rotated
C20_WitnessOutside ==
  /\ call.fn = "isPointInPolygon"
  /\ Len(call.polygon) = 6 /\ call.rotation = 3
  /\ call.point = <<30, 30>>
  /\ ~OnBoundary(call.point, call.polygon)
  /\ ~call.inside /\ ~call.rotated

(* ------------------------ the order of the steps ----------------------- *)

\* every occurrence of step b in the trace has step a somewhere before it
Precedes(trace, a, b) ==
  \A j \in DOMAIN trace : trace[j] = b => \E i \in 1..(j - 1) : trace[i] = a

\* the steps of an accepted report, as the pipeline is said to run them:
\* division resolution, officer notification, persistence, acknowledgement
\* to the submitter (ack), email
PipelineOrder(trace, ack) ==
  /\ Precedes(trace, "resolve", "officers.notify")
  /\ Precedes(trace, "officers.notify", "query.save")
  /\ Precedes(trace, "query.save", ack)
  /\ Precedes(trace, ack, "email")

\* C21: for an accepted location report the steps run in the order division
\* resolution, officer notification, persistence, acknowledgement to the
\* submitter, email, on the chat path and on the web path: no report is
\* stored before officers were notified and the acknowledgement is sent
\* before the email attempt.
C21_PipelineOrder ==
  /\ \A h \in Handlers :
       handlers[h].queryId # 0 /\ handlers[h].status = 200
         => PipelineOrder(handlers[h].trace, "message.send")
  /\ web.endpoint = "/api/report" /\ web.success = "true"
       => PipelineOrder(web.trace, "user.send")

(* --------------------------- officer fan-out --------------------------- *)

\* the handler has run the fan-out of its location report
Notified(hd) == \E i \in DOMAIN hd.trace : hd.trace[i] = "officers.notify"

\* the phones in a list of notified officers
PhonesOf(notifiedOfficers) ==
  { notifiedOfficers[i] : i \in DOMAIN notifiedOfficers }

\* the officer's alternate phone is one a fallback can use
HasAlternate(officer) ==
  officer.alternate_phone # NoPhone /\ officer.alternate_phone # officer.phone

\* C22: in the chat location flow the notification targets only the first 2
\* active officers in roster order, and each of them is tried on the primary
\* phone first and, when that send fails or the primary phone is missing, on
\* the alternate phone: an officer whose primary phone a send reaches is
\* notified on it, and an officer whose primary is missing or unreachable
\* and whose alternate a send reaches is notified on the alternate.
C22_PrimaryThenAlternate ==
  \A h \in Handlers :
    LET hd == handlers[h]
        selected == officersToNotify(hd.division)
        notifiedPhones == PhonesOf(hd.notifiedOfficers)
    IN  Notified(hd) =>
          /\ notifiedPhones \subseteq PhonesTried(hd.division)
          /\ \A i \in DOMAIN selected :
               LET officer == selected[i] IN
               IF officer.phone # NoPhone /\ officer.phone \in hd.reached
                 THEN officer.phone \in notifiedPhones
                 ELSE HasAlternate(officer) /\ officer.alternate_phone \in hd.reached
                        => officer.alternate_phone \in notifiedPhones

\* the phones the sends recorded in a trace were made to
Attempted(trace) == { trace[i] : i \in DOMAIN trace } \cap (Phones \cup {NoPhone})

\* the first phone the fan-out of a path passes to a send for the officer:
\* the webhook passes officer.phone as it is, notifyDivisionOfficers the
\* primary phone when there is one and the alternate otherwise
FirstTried(officer, chat) ==
  IF chat \/ officer.phone # NoPhone THEN officer.phone ELSE officer.alternate_phone

\* C23: during officer notification fan-out a failed send to one officer
\* never prevents the attempt on the next selected officer: whatever the
\* outcome for the officers before, every selected officer gets at least one
\* send attempt, on the chat path and on the web path.
C23_EveryOfficerAttempted ==
  /\ \A h \in Handlers :
       LET hd == handlers[h]
           selected == officersToNotify(hd.division)
       IN  Notified(hd) =>
             \A i \in DOMAIN selected :
               FirstTried(selected[i], TRUE) \in Attempted(hd.trace)
  /\ \A q \in DOMAIN queries :
       LET selected == officersToNotify(queries[q].division) IN
       /\ web.endpoint = "/api/report"
       /\ web.queryId = q
       /\ \E j \in DOMAIN web.trace : web.trace[j] = "officers.notify"
       => \A i \in DOMAIN selected :
            FirstTried(selected[i], FALSE) \in Attempted(web.trace)

\* a chat fan-out over two selected officers in which the send to the first
\* failed and the second was reached
C23_Witness ==
  \E h \in Handlers :
    LET hd == handlers[h]
        selected == officersToNotify(hd.division)
    IN  /\ Notified(hd)
        /\ Len(selected) = 2
        /\ selected[1].phone \notin hd.reached
        /\ selected[2].phone \in hd.reached
        /\ selected[2].phone \in Attempted(hd.trace)
        /\ hd.notifiedOfficers = <<selected[2].phone>>

\* a web fan-out over two selected officers in which the sends to the first
\* officer's primary and alternate phone both failed and the second officer
\* was notified
C23_WitnessWeb ==
  \E q \in DOMAIN queries :
    /\ web.endpoint = "/api/report"
    /\ web.queryId = q
    /\ queries[q].division = 1
    /\ {"p1", "p2", "p4"} \subseteq Attempted(web.trace)
    /\ queries[q].divisionOfficersNotified = <<"p4">>

(* --------------------------- the webhook's tail ------------------------ *)

\* the last n steps of a trace
LastSteps(trace, n) ==
  IF Len(trace) < n THEN << >> ELSE SubSeq(trace, Len(trace) - n + 1, Len(trace))

\* C24: for every webhook event answered with 200 the session record is
\* saved with the new state before the outbound message to the user is sent,
\* and the HTTP response is sent only after that message was dispatched: the
\* request ends with the session update, the send and the response, in this
\* order, and the stored session holds the new state and lastOption.
C24_SaveSendRespond ==
  \A h \in Handlers :
    LET hd == handlers[h] IN
    hd.status = 200 =>
      /\ LastSteps(hd.trace, 3) = <<"session.update", "message.send", "respond 200">>
      /\ hd.id \in DOMAIN sessions
      /\ sessions[hd.id].current_state = hd.newState
      /\ sessions[hd.id].last_option = hd.newLastOption

\* a request answered with 200 whose transition changed the session's state
C24_Witness ==
  \E h \in Handlers :
    LET hd == handlers[h] IN
    /\ hd.status = 200
    /\ hd.found.current_state # hd.newState
    /\ sessions[hd.id].current_state = hd.newState

(* ------------------------------ suggestions ---------------------------- *)

\* the steps of a trace that answer the request
Responses(trace) ==
  { i \in DOMAIN trace : trace[i] \in {"respond 200", "respond 201", "respond 202",
                                        "respond 400", "respond 500"} }

Has(trace, step) == \E i \in DOMAIN trace : trace[i] = step

C25_WitnessAcknowledgement ==
  /\ web.endpoint = "/api/suggestion"
  /\ web.status = 202
  /\ Has(web.trace, "user.send throws")
  /\ web.queryId \in DOMAIN queries

(* --------------------- two requests of one user at once ---------------- *)

\* handler h saves its transition and answers 200 in this step
SavesTransition(h) ==
  handlers[h].pc = "updateUserSession" /\ handlers'[h].status = 200

\* C26 as stated: two concurrent requests of one user each read the
\* session, compute their transition from the state they read and save
\* without a version check, and the final session state is the one written
\* by the handler that saves last: after a handler's save the stored state
\* and lastOption are the ones it computed.
C26_LastSaveWins ==
  [][\A h \in Handlers :
       SavesTransition(h) =>
         /\ sessions'[handlers[h].id].current_state = handlers[h].newState
         /\ sessions'[handlers[h].id].last_option = handlers[h].newLastOption]_vars

\* C26, amended: the save has no version check and writes the fields the
\* handler changed: after a handler's save the stored state (lastOption) is
\* the one it computed when that differs from the one it read, and is left
\* as the collection holds it otherwise.
C26_LastChangeWins ==
  [][\A h \in Handlers :
       LET hd == handlers[h]
           read == hd.session
       IN  SavesTransition(h) =>
             /\ sessions'[hd.id].current_state =
                  IF hd.newState # read.current_state
                    THEN hd.newState ELSE sessions[hd.id].current_state
             /\ sessions'[hd.id].last_option =
                  IF hd.newLastOption # read.last_option
                    THEN hd.newLastOption ELSE sessions[hd.id].last_option]_vars

\* a lost transition: one handler read NAME_COLLECTION and saved MENU, the
\* other had read LANGUAGE_SELECT before and saved NAME_COLLECTION after it
C26_Witness ==
  \E h, g \in Handlers :
    /\ handlers[h].status = 200 /\ handlers[g].status = 200
    /\ handlers[h].found.current_state = "LANGUAGE_SELECT"
    /\ handlers[h].newState = "NAME_COLLECTION"
    /\ handlers[g].found.current_state = "NAME_COLLECTION"
    /\ handlers[g].newState = "MENU"
    /\ sessions[handlers[h].id].current_state = "NAME_COLLECTION"

(* ------------------------------ the main menu -------------------------- *)

\* the handler took the MENU branch with one of the messages "1" to "7"
ChoseReport(hd) ==
  /\ HasDecided(hd)
  /\ hd.branch = "MENU"
  /\ hd.Body \in { <<"1">>, <<"2">>, <<"3">>, <<"4">>, <<"5">>, <<"6">>, <<"7">> }

\* the session awaits the report of the option the message selected, and a
\* capture link for that user and option is stored
AwaitsReport(hd) ==
  /\ hd.newState = "AWAITING_REPORT"
  /\ hd.newLastOption = hd.Body
  /\ \E i \in DOMAIN links :
       /\ links[i].userId = normalizeUserId(hd.From, FALSE)
       /\ links[i].reportType = hd.Body
  /\ hd.status = 200 =>
       /\ sessions[hd.id].current_state = "AWAITING_REPORT"
       /\ sessions[hd.id].last_option = hd.Body

\* C27 as stated: in MENU each of the messages "1" to "7" moves the session
\* to AWAITING_REPORT and stores the selected option as lastOption, with a
\* capture link generated for that user and option.
C27_OptionAwaitsReport ==
  \A h \in Handlers : ChoseReport(handlers[h]) => AwaitsReport(handlers[h])

\* C27, amended: in MENU each of the messages "1" to "7" moves the session
\* to AWAITING_REPORT with the option as lastOption and a capture link for
\* that user and option, unless generating the link throws: then the user
\* is told of technical difficulties and state and lastOption stay as read.
C27_OptionAwaitsReportOrKeeps ==
  \A h \in Handlers :
    LET hd == handlers[h] IN
    ChoseReport(hd) =>
      \/ AwaitsReport(hd)
      \/ /\ hd.responseMessage = "TECHNICAL_DIFFICULTIES"
         /\ ~Has(hd.trace, "link.save")
         /\ hd.newState = "MENU"
         /\ hd.newLastOption = hd.found.last_option

\* the message "7" from MENU, answered: the session awaits the report with
\* lastOption "7" and the link is stored
C27_Witness ==
  \E h \in Handlers :
    /\ ChoseReport(handlers[h])
    /\ handlers[h].Body = <<"7">>
    /\ handlers[h].status = 200
    /\ AwaitsReport(handlers[h])

(* --------------------------- awaiting a location ----------------------- *)

\* the handler took the AWAITING_LOCATION branch and the branch ran to its
\* decision (a throw inside the branch ends in the webhook's catch before any)
DecidedLocation(hd) ==
  HasDecided(hd) /\ hd.branch = "AWAITING_LOCATION" /\ hd.responseMessage # ""

\* the event carried a location
CarriesLocation(hd) == hd.Latitude # Absent /\ hd.Longitude # Absent

\* the decision, and the stored session once the request is answered
EndsIn(hd, state, lastOption) ==
  /\ hd.newState = state
  /\ hd.newLastOption = lastOption
  /\ hd.status = 200 =>
       /\ sessions[hd.id].current_state = state
       /\ sessions[hd.id].last_option = lastOption

C28_WitnessAccepted ==
  \E h \in Handlers :
    LET hd == handlers[h] IN
    /\ DecidedLocation(hd) /\ CarriesLocation(hd)
    /\ hd.responseMessage = "REPORT_RESPONSE" /\ hd.status = 200
    /\ hd.found.last_option # NULL /\ sessions[hd.id].last_option = NULL

\* a report outside every division, answered
C28_WitnessOutside ==
  \E h \in Handlers :
    LET hd == handlers[h] IN
    /\ DecidedLocation(hd) /\ CarriesLocation(hd)
    /\ hd.responseMessage = "LOCATION_OUTSIDE_JURISDICTION" /\ hd.status = 200
    /\ hd.found.last_option # NULL /\ sessions[hd.id].last_option = NULL

\* an event without a location, answered: state and lastOption are kept
C28_WitnessNoLocation ==
  \E h \in Handlers :
    LET hd == handlers[h] IN
    /\ DecidedLocation(hd) /\ ~CarriesLocation(hd)
    /\ hd.status = 200
    /\ sessions[hd.id].current_state = "AWAITING_LOCATION"
    /\ sessions[hd.id].last_option # NULL

(* ------------------------------ back to MENU --------------------------- *)

\* the stored session of the user is in the state
Stored(state) == sessions # << >> /\ sessions[1].current_state = state

\* the states a completed flow leaves the session in when it does not
\* return to MENU at once: the capture link was sent, the join link was sent
AfterFlow == { "AWAITING_REPORT", "JOIN_TEAM_LINK_SENT" }

\* handler h decides in this step
Decides(h) == handlers[h].pc = "transition" /\ handlers'[h].pc = "updateUserSession"

\* C29: the conversation machine has no terminal state: from every state
\* reachable from a new session a finite sequence of inbound messages brings
\* the session to MENU, and every completed flow (report capture abandoned,
\* join link sent, suggestion saved, location handled) returns to MENU on
\* the next non-reset message at the latest.
C29_AlwaysBackToMenu ==
  /\ (sessions = << >>) ~> Stored("MENU")
  /\ \A state \in States : Stored(state) ~> Stored("MENU")
  /\ [][\A h \in Handlers :
          LET read == handlers[h].session.current_state
              decided == handlers'[h]
          IN  Decides(h) /\ decided.branch # "reset" =>
                /\ read \in AfterFlow => decided.newState = "MENU"
                /\ read \in {"AWAITING_SUGGESTION_TEXT", "AWAITING_JOIN"}
                     => decided.newState = "MENU"]_vars

\* the join link was sent and the next message, no command, was answered
\* from MENU's default branch: the session is back in MENU
C29_Witness ==
  \E h \in Handlers :
    /\ handlers[h].found.current_state = "JOIN_TEAM_LINK_SENT"
    /\ handlers[h].Body = <<"1">>
    /\ handlers[h].status = 200
    /\ Stored("MENU")

(* ----------------------- the notification status ----------------------- *)

\* C30: in every reachable state every persisted report has
\* divisionNotified = true exactly when its stored list of notified officers
\* is non-empty, on the chat path (stored once) and on the web path (stored,
\* then updated after officer notification).
C30_NotifiedIffOfficers ==
  \A q \in DOMAIN queries :
    queries[q].divisionNotified <=> queries[q].divisionOfficersNotified # << >>

\* a web report stored and then updated with the officers notified
C30_Witness ==
  \E q \in DOMAIN queries :
    /\ queries[q].via \in {"processReportInBackground", "processReportWithoutImage"}
    /\ web.queryId = q
    /\ Has(web.trace, "query.update")
    /\ queries[q].divisionNotified
    /\ Len(queries[q].divisionOfficersNotified) = 2

\* a web report stored whose officers could not be reached: it stays
\* without the flag and without officers
C30_WitnessUnnotified ==
  \E q \in DOMAIN queries :
    /\ queries[q].via \in {"processReportInBackground", "processReportWithoutImage"}
    /\ web.queryId = q
    /\ Has(web.trace, "officers.notify")
    /\ ~queries[q].divisionNotified
    /\ queries[q].divisionOfficersNotified = << >>

\* a chat report, stored once with the flag and the officers notified
C30_WitnessChat ==
  \E q \in DOMAIN queries :
    /\ queries[q].via = "webhook"
    /\ queries[q].divisionNotified
    /\ queries[q].divisionOfficersNotified # << >>

(* ------------------------------- C31 ---------------------------------- *)

\* the query types that are stored without a division
Undivided == {"Suggestion", "Join Request"}

\* C31: every persisted report whose type is neither Suggestion nor Join
\* Request has a non-null division reference.
C31_ReportHasDivision ==
  \A i \in DOMAIN queries :
    queries[i].query_type \notin Undivided => queries[i].division # 0

\* a report stored by the web submission without an image, with its division
C31_Witness ==
  \E i \in DOMAIN queries :
    /\ queries[i].via = "processReportWithoutImage"
    /\ queries[i].query_type \notin Undivided
    /\ queries[i].division # 0

\* a report stored by the chat's location step, with its division
C31_WitnessChat ==
  \E i \in DOMAIN queries :
    /\ queries[i].via = "webhook"
    /\ queries[i].query_type \notin Undivided
    /\ queries[i].division # 0

\* a suggestion stored without a division
C31_WitnessSuggestion ==
  \E i \in DOMAIN queries :
    queries[i].query_type = "Suggestion" /\ queries[i].division = 0

(* ------------------------------- C32 ---------------------------------- *)

StatusEndpoints == {"updateQueryStatus", "/reports/:id/resolve"}

\* the status a status update asked for
StatusAsked == web.trace[1]

\* C32: the status of every persisted report is one of Pending, In
\* Progress, Resolved, Rejected, and a status update with any other value is
\* rejected and stores nothing.
C32_StatusInEnum ==
  /\ \A i \in DOMAIN queries : queries[i].status \in QueryStatuses
  /\ (web.endpoint \in StatusEndpoints /\ StatusAsked \notin QueryStatuses)
       => web.status # 200 /\ ~Has(web.trace, "query.save")

\* the part that holds: a status update through updateQueryStatus with
\* another value is answered 400, and every update it accepts stores one of
\* the four values
C32_UpdateQueryStatusChecks ==
  web.endpoint = "updateQueryStatus"
    => /\ StatusAsked \notin QueryStatuses => web.status = 400
       /\ Has(web.trace, "query.save")
            => queries[web.queryId].status = StatusAsked /\ StatusAsked \in QueryStatuses

\* /reports/:id/resolve has stored a status outside the four values
C32_WitnessResolve ==
  /\ web.endpoint = "/reports/:id/resolve"
  /\ web.status = 200
  /\ \E i \in DOMAIN queries : queries[i].status = "Closed"

(* ------------------------------- C33 ---------------------------------- *)

Scanned == call.fn = "scan"

\* a division the loop may return: it has a boundary ring of 3 vertices or more
Scannable(division) == division.ring # NULL /\ Len(division.ring) >= 3

\* the positions of the divisions whose ring the point of the call is inside
Containing ==
  { i \in DOMAIN call.divisions :
      /\ Scannable(call.divisions[i])
      /\ StrictlyInside(<<call.lng, call.lat>>, call.divisions[i].ring) }

\* C33: on a cache miss the first division in storage order whose ring
\* contains the point is returned, also when later divisions contain it too,
\* and a division without boundary or with a ring of fewer than 3 vertices
\* is never returned.
C33_FirstInStorageOrder ==
  Scanned =>
    /\ call.returned # 0 => Scannable(call.divisions[call.returned])
    /\ IF Containing = {} THEN call.returned = 0
       ELSE /\ call.returned \in Containing
            /\ \A i \in Containing : call.returned <= i

\* two divisions hold the point and the earlier one was returned, after a
\* division without boundary and one with a ring of two vertices were passed
C33_Witness ==
  /\ Scanned
  /\ Cardinality(Containing) = 2
  /\ call.returned = 2
  /\ call.divisions[1].ring = NULL

\* a ring of two vertices comes first and the division after it is returned
C33_WitnessShortRing ==
  /\ Scanned
  /\ call.divisions[1].ring # NULL /\ Len(call.divisions[1].ring) = 2
  /\ call.returned = 2

(* ------------------------------- C34 ---------------------------------- *)

\* POST /api/report has answered res.status(200).json({ success: true, ... }):
\* the only response of the endpoint with status 200
AnsweredSuccess == web.endpoint = "/api/report" /\ web.status = 200

\* C34: /api/report answers success:true (HTTP 200) only when the request
\* persisted a report, and not when the processing step failed or returned
\* an unsuccessful result.
C34_SuccessOnlyWhenPersisted ==
  AnsweredSuccess => web.queryId # 0 /\ web.success = "true"

\* the endpoint answered success:true although the save of the report failed
C34_WitnessNothingStored ==
  /\ AnsweredSuccess
  /\ web.success = "false"
  /\ web.queryId = 0
  /\ queries = << >>

(* ------------------------------- C35 ---------------------------------- *)

\* the states no branch of the webhook enters from another state
UnreachedStates == {"AWAITING_LOCATION", "AWAITING_SUGGESTION_TEXT", "AWAITING_JOIN"}

\* C35: starting from a newly created session, no sequence of webhook events
\* and inactivity timeouts brings the session into AWAITING_LOCATION,
\* AWAITING_SUGGESTION_TEXT or AWAITING_JOIN; the stored state is always one
\* of LANGUAGE_SELECT, NAME_COLLECTION, MENU, AWAITING_REPORT and
\* JOIN_TEAM_LINK_SENT.
C35_ThreeStatesUnreached ==
  /\ \A i \in DOMAIN sessions : sessions[i].current_state \in States \ UnreachedStates
  /\ \A h \in Handlers :
       handlers[h].pc # "idle" => handlers[h].session.current_state \notin UnreachedStates

\* the session has gone through the menu into AWAITING_REPORT and the hour
\* has passed since
C35_Witness ==
  /\ Len(sessions) = 1
  /\ sessions[1].current_state = "AWAITING_REPORT"
  /\ sessions[1].last_interaction > conversationTimeout

\* the session has been left in JOIN_TEAM_LINK_SENT
C35_WitnessJoin ==
  Len(sessions) = 1 /\ sessions[1].current_state = "JOIN_TEAM_LINK_SENT"

(* ------------------------------- C36 ---------------------------------- *)

\* what the stored lastOption of a session may be in its state
LastOptionFits(doc) ==
  CASE doc.current_state = "AWAITING_REPORT" -> doc.last_option \in ReportOptions
    [] doc.current_state = "JOIN_TEAM_LINK_SENT" -> doc.last_option = <<"8">>
    [] OTHER -> doc.last_option = NULL

\* C36: a session's lastOption is non-null only while its state is
\* AWAITING_REPORT (a value "1" to "7") or JOIN_TEAM_LINK_SENT (the value
\* "8"); in LANGUAGE_SELECT, NAME_COLLECTION and MENU it is null.
C36_LastOptionFitsState ==
  \A i \in DOMAIN sessions : LastOptionFits(sessions[i])

\* /reset-all-sessions has left a session in LANGUAGE_SELECT with the
\* option it had stored
C36_WitnessReset ==
  /\ web.endpoint = "/reset-all-sessions" /\ web.status = 200
  /\ \E i \in DOMAIN sessions :
       sessions[i].current_state = "LANGUAGE_SELECT" /\ sessions[i].last_option # NULL

\* the option has gone on into the main menu
C36_WitnessMenu ==
  \E i \in DOMAIN sessions :
    sessions[i].current_state = "MENU" /\ sessions[i].last_option # NULL

\* the part that holds: only a step of /reset-all-sessions takes the sessions
\* from fitting options to an option that does not fit
C36_BrokenOnlyByReset ==
  [][ (C36_LastOptionFitsState /\ ~C36_LastOptionFitsState')
        => web'.endpoint = "/reset-all-sessions" /\ web' # web ]_vars

(* ------------------------------- C37 ---------------------------------- *)

\* C37: once a session has a non-empty userName, no step of a webhook
\* request handled after the others, of a timeout or of /reset-all-sessions
\* changes or clears it.
C37_NameKept ==
  [][ \A i \in DOMAIN sessions :
        Truthy(sessions[i].user_name)
          => i \in DOMAIN sessions' /\ sessions'[i].user_name = sessions[i].user_name ]_vars

\* a request has left the session in NAME_COLLECTION with the name it saved:
\* its save of the new state threw after the save of the name
C37_WitnessHalfSaved ==
  /\ handlers["h1"].pc = "done" /\ handlers["h1"].status = 500
  /\ \E i \in DOMAIN sessions :
       sessions[i].current_state = "NAME_COLLECTION" /\ Truthy(sessions[i].user_name)

\* the part that holds: a stored name is changed only by the NAME_COLLECTION
\* branch, on a session stored in NAME_COLLECTION
C37_ChangedOnlyInNameCollection ==
  [][ \A i \in DOMAIN sessions :
        (Truthy(sessions[i].user_name) /\ sessions'[i].user_name # sessions[i].user_name)
          => /\ sessions[i].current_state = "NAME_COLLECTION"
             /\ handlers'["h1"].branch = "NAME_COLLECTION" ]_vars

(* ------------------------------- C38 ---------------------------------- *)

\* the /api/report request just answered has marked an unused link as used
ConsumedByReport ==
  /\ web.endpoint = "/api/report"
  /\ web.linkFound /\ ~web.linkUsedBefore
  /\ \E i \in DOMAIN links : links[i].linkId = web.linkId /\ links[i].used

\* C38: a /api/report submission that is rejected (outside jurisdiction, or
\* an internal error) does not consume the capture link; the link is marked
\* used only when the report of that submission is accepted.
C38_ConsumedOnlyWhenAccepted ==
  ConsumedByReport => web.status = 200 /\ web.queryId # 0

\* a submission from outside every division was answered 400 and its link
\* is used
C38_WitnessOutside ==
  /\ ConsumedByReport
  /\ web.status = 400 /\ web.error = "Location outside jurisdiction"
  /\ queries = << >>

(* ------------------------------- C39 ---------------------------------- *)

\* getCaptureUrl threw in the MENU branch of handler hd for an option "1" to
\* "7": the catch has set the technical-difficulties message
LinkFailed(hd) ==
  /\ hd.branch = "MENU" /\ hd.Body \in ReportOptions
  /\ hd.responseMessage = "TECHNICAL_DIFFICULTIES"

\* the request was answered 200 after the session was saved with the state
\* and option given and the message was sent
CompletedWith(hd, state, lastOption) ==
  /\ sessions[hd.id].current_state = state
  /\ sessions[hd.id].last_option = lastOption
  /\ Has(hd.trace, "message.send")

\* C39: in MENU, when generating the capture link for an option "1" to "7"
\* fails, the session stays in MENU with lastOption null, the
\* technical-difficulties message is sent and the webhook completes normally.
C39_LinkFailureKeepsMenu ==
  \A h \in Handlers :
    LET hd == handlers[h] IN
    LinkFailed(hd) =>
      /\ hd.newState = "MENU" /\ hd.newLastOption = NULL
      /\ ~Has(hd.trace, "link.save")
      /\ hd.pc = "updateUserSession" => hd.status # 500
      /\ hd.status = 200 => CompletedWith(hd, "MENU", NULL)

\* the part that holds: the state stays MENU and lastOption stays what the
\* session held, the failure alone does not end the request, and a request
\* answered 200 has stored both and sent the message
C39_LinkFailureKeepsState ==
  \A h \in Handlers :
    LET hd == handlers[h] IN
    LinkFailed(hd) =>
      /\ hd.newState = "MENU"
      /\ ~Has(hd.trace, "link.save")
      /\ hd.pc = "updateUserSession" =>
           /\ hd.status # 500
           /\ hd.session.current_state = "MENU"
           /\ hd.newLastOption = hd.session.last_option
      /\ hd.status = 200 => CompletedWith(hd, "MENU", hd.newLastOption)

\* the link failed in a menu session that held no option, and the request
\* was answered 200
C39_Witness ==
  /\ LinkFailed(handlers["h1"])
  /\ handlers["h1"].status = 200
  /\ handlers["h1"].newLastOption = NULL
  /\ links = << >>

\* the link failed in a menu session that still held the option left by
\* /reset-all-sessions
C39_WitnessStaleOption ==
  /\ LinkFailed(handlers["h1"])
  /\ handlers["h1"].status = 200
  /\ handlers["h1"].newLastOption # NULL

====
